---- MODULE Spec2Model ----
(***************************************************************************)
(* RFID attendance terminal (server.js).  A serial reader emits lines, the *)
(* 'data' callback debounces them through scannedRecently, handleCardScan  *)
(* resolves the uid and toggles the user's session of the day in           *)
(* attendance_log, socket.io broadcasts scan_event / counts_update, a cron *)
(* job closes the sessions of the day, and the admin routes sit behind     *)
(* isAuthenticated.                                                         *)
(*                                                                         *)
(* Every await of the code is one step of the model: the awaited query     *)
(* runs against the tables and the continuation up to the next await runs  *)
(* with it.  A query may fail at any await.                                *)
(***************************************************************************)
EXTENDS Integers, Sequences, FiniteSets, TLC

VARIABLES
    now,              \* wall clock, milliseconds
    rfid_details,     \* table: set of rows [user_id, uid]
    users,            \* table: user_id -> [user_type, program_id]
    attendance_log,   \* table: sequence of rows, log_id = index
    scannedRecently,  \* the Set of recently accepted uids
    timers,           \* pending setTimeout callbacks, in the order they were set
    handlers,         \* the handleCardScan calls started so far
    emitted,          \* everything io.emit has broadcast, in order
    batch,            \* the autoLogoutCurrentDay calls started so far
    cronRan,          \* date of the last run of the cron job
    view,             \* the rows the open dashboard page shows
    session,          \* client -> req.session.user
    resp,             \* the last HTTP request and its response
    txs,              \* the POST /edit-rfid/update requests started so far
    uploads,          \* the POST /upload-...-excel requests started so far
    programs,         \* table: the program ids
    branch_visits,    \* table of the build part_000: <<visit_date, branch>> -> visit_count
    deletes           \* the POST /manage-programs/delete/:id requests started so far

vars == <<now, rfid_details, users, attendance_log, scannedRecently, timers,
          handlers, emitted, batch, cronRan, view,
          session, resp, txs, uploads, programs, branch_visits, deletes>>

scanVars == <<now, rfid_details, users, attendance_log, scannedRecently, timers,
              handlers, emitted, batch, cronRan, view, programs, branch_visits, deletes>>
httpVars == <<session, resp, txs, uploads>>
\* everything of the terminal but the table users
rosterFrame == <<now, rfid_details, attendance_log, scannedRecently, timers,
                 handlers, emitted, batch, cronRan, view, programs, branch_visits, deletes>>
\* everything of the terminal but the table rfid_details
terminalVars == <<now, users, attendance_log, scannedRecently, timers,
                  handlers, emitted, batch, cronRan, view, programs, branch_visits, deletes>>

----------------------------------------------------------------------------
(* Bounds of the model *)

MaxScans == 2    \* handleCardScan calls started
MaxIgnored == 1  \* duplicate scans answered with IGNORED
MaxFailures == 1 \* queries that fail
MaxUpdates == 2  \* POST /edit-rfid/update requests started
MaxUploads == 1  \* roster files uploaded

(* Program constants *)

SCAN_TIMEOUT_MS == 5000
MS_PER_DAY == 86400000
NULL == -1
NoUser == "none"

\* wall-clock instant of day d at h:m:s
At(d, h, m, s) == d * MS_PER_DAY + ((h * 60 + m) * 60 + s) * 1000

\* cron expression '5 19 * * *', as seconds of the day
CRON_TIME == (19 * 60 + 5) * 60
\* logoutTime = '19:00:00', as seconds of the day
AUTO_LOGOUT_TIME == 19 * 3600

\* the instants at which the model lets something happen
Instants == { At(1, 19, 4, 55), At(1, 19, 5, 0), At(2, 9, 0, 0) }
StartInstant == At(1, 19, 4, 55)

\* format(now, 'yyyy-MM-dd'): the calendar date, as a day number
FormatDate(t) == t \div MS_PER_DAY
\* format(now, 'HH:mm:ss'): the time of day, to the second
FormatTime(t) == (t % MS_PER_DAY) \div 1000

----------------------------------------------------------------------------
(* Strings are sequences of characters *)

PREFIX == <<"R", "F", "I", "D", " ", "T", "a", "g", " ", "U", "I", "D", ":">>

\* String.prototype.startsWith
StartsWith(s, p) == Len(s) >= Len(p) /\ SubSeq(s, 1, Len(p)) = p

\* index of the first sep in s at or after position i, or Len(s) + 1
RECURSIVE IndexOf(_, _, _)
IndexOf(s, sep, i) ==
    IF i > Len(s) THEN Len(s) + 1
    ELSE IF s[i] = sep THEN i
    ELSE IndexOf(s, sep, i + 1)

\* String.prototype.split(sep) for a one-character separator
RECURSIVE Split(_, _)
Split(s, sep) ==
    LET k == IndexOf(s, sep, 1)
    IN IF k > Len(s) THEN <<s>>
       ELSE <<SubSeq(s, 1, k - 1)>> \o Split(SubSeq(s, k + 1, Len(s)), sep)

\* the white space String.prototype.trim removes, as far as the lines carry it
WhiteSpace == {" ", "\t"}

RECURSIVE TrimStart(_)
TrimStart(s) ==
    IF s # <<>> /\ s[1] \in WhiteSpace THEN TrimStart(Tail(s)) ELSE s

RECURSIVE TrimEnd(_)
TrimEnd(s) ==
    IF s # <<>> /\ s[Len(s)] \in WhiteSpace THEN TrimEnd(SubSeq(s, 1, Len(s) - 1)) ELSE s

\* String.prototype.trim
Trim(s) == TrimEnd(TrimStart(s))

\* mutant of UidOfLine: the last piece of the split is taken
UidOfLine_LastPiece(l) == Trim(Split(l, ":")[Len(Split(l, ":"))])

\* const uid = line.split(":")[1].trim()   (JavaScript indexes from 0)
UidOfLine(l) == Trim(Split(l, ":")[2])

----------------------------------------------------------------------------
(* Tables and queries *)

\* SELECT user_id FROM rfid_details WHERE uid = ?
RfidRows(uid) == { r \in rfid_details : r.uid = uid }

\* SELECT ... FROM users u LEFT JOIN ... WHERE u.user_id = ?
UserRows(user_id) == { u \in DOMAIN users : u = user_id }

\* SELECT log_id FROM attendance_log
\*   WHERE user_id = ? AND log_date = ? AND logout_time IS NULL
OpenLogins(user_id, date) ==
    { i \in DOMAIN attendance_log :
        /\ attendance_log[i].user_id = user_id
        /\ attendance_log[i].log_date = date
        /\ attendance_log[i].logout_time = NULL }

\* mutant of UpdateLogout: the UPDATE also sets login_time
UpdateLogout_AndLogin(log_id, time) ==
    [attendance_log EXCEPT ![log_id].logout_time = time, ![log_id].login_time = time]

\* UPDATE attendance_log SET logout_time = ? WHERE log_id = ?
UpdateLogout(log_id, time) ==
    [attendance_log EXCEPT ![log_id].logout_time = time]

\* INSERT INTO attendance_log (user_id, log_date, login_time) VALUES (?, ?, ?)
InsertLogin(user_id, date, time) ==
    Append(attendance_log,
           [user_id |-> user_id, log_date |-> date,
            login_time |-> time, logout_time |-> NULL])

Programs == {"p1", "p2"}

\* getTodayBranchCounts: COUNT(al.log_id) of the date's rows of students,
\* grouped by program
BranchCounts(date) ==
    [p \in Programs |->
        Cardinality({ i \in DOMAIN attendance_log :
            /\ attendance_log[i].log_date = date
            /\ attendance_log[i].user_id \in DOMAIN users
            /\ users[attendance_log[i].user_id].user_type = "student"
            /\ users[attendance_log[i].user_id].program_id = p })]

NoCounts == [p \in Programs |-> 0]

\* SELECT ... FROM attendance_log al JOIN users u ... WHERE al.log_date = ?
\* as the dashboard shows it: who, since when, still open or not
ShownRow(r) ==
    [user_id |-> r.user_id, login_time |-> r.login_time,
     open |-> (r.logout_time = NULL)]

RECURSIVE MapShown(_)
MapShown(rows) ==
    IF rows = <<>> THEN <<>> ELSE <<ShownRow(Head(rows))>> \o MapShown(Tail(rows))

OfDate(date, r) == r.log_date = date /\ r.user_id \in DOMAIN users

TodaysLog(date) ==
    MapShown(SelectSeq(attendance_log, LAMBDA r : OfDate(date, r)))

----------------------------------------------------------------------------
(* Broadcasts and the dashboard page that receives them *)

\* h is the handleCardScan call that emits, 0 for the 'data' callback itself
ScanEvent(h, uid, user_id, status, time) ==
    [ev |-> "scan_event", h |-> h, uid |-> uid, user_id |-> user_id,
     status |-> status, time |-> time, counts |-> NoCounts]

\* the IGNORED event of the 'data' callback, with the line it answers
IgnoredEvent(l, uid) ==
    [ev |-> "scan_event", h |-> 0, uid |-> uid, user_id |-> NoUser,
     status |-> "IGNORED", time |-> NULL, counts |-> NoCounts, line |-> l]

CountsUpdate(h, counts) ==
    [ev |-> "counts_update", h |-> h, uid |-> <<>>, user_id |-> NoUser,
     status |-> "", time |-> NULL, counts |-> counts]

\* index of the last open row of the user on the page, 0 when there is none
LastOpen(rows, user_id) ==
    LET open == { i \in DOMAIN rows : rows[i].user_id = user_id /\ rows[i].open }
    IN IF open = {} THEN 0 ELSE CHOOSE i \in open : \A j \in open : j <= i

\* the page on a scan_event: LOGIN adds an open row, LOGOUT closes the
\* user's open row, every other event leaves the rows alone
ViewApply(rows, e) ==
    IF e.ev = "scan_event" /\ e.status = "LOGIN"
    THEN Append(rows, [user_id |-> e.user_id, login_time |-> e.time, open |-> TRUE])
    ELSE IF e.ev = "scan_event" /\ e.status = "LOGOUT" /\ LastOpen(rows, e.user_id) # 0
    THEN [rows EXCEPT ![LastOpen(rows, e.user_id)].open = FALSE]
    ELSE rows

\* io.emit(...): the event is sent, and the open page applies it
Broadcast(e) ==
    /\ emitted' = Append(emitted, e)
    /\ view' = ViewApply(view, e)

----------------------------------------------------------------------------
(* handleCardScan *)

Awaiting == {"rfid", "user", "open", "update", "insert", "counts"}

Running == { h \in DOMAIN handlers : handlers[h].pc \in Awaiting }

\* the synchronous start of handleCardScan(uid): the clock is read and the
\* first query is issued.  `line` is the serial line the uid was read from and
\* `during` the calls still running then.
StartScan(uid, l) ==
    [pc |-> "rfid", uid |-> uid, line |-> l, started |-> now,
     currentDate |-> FormatDate(now), currentTime |-> FormatTime(now),
     user_id |-> NoUser, log_id |-> NULL, today |-> NULL,
     wrote |-> NULL, failedAt |-> "", settled |-> "pending", during |-> Running]

Finish(h) ==
    handlers' = [handlers EXCEPT ![h].pc = "done", ![h].settled = "fulfilled"]

\* const [rfidRows] = await dbPool.query("SELECT user_id FROM rfid_details ...")
QRfid(h) ==
    /\ handlers[h].pc = "rfid"
    /\ IF RfidRows(handlers[h].uid) = {}
       THEN /\ Finish(h)
            /\ Broadcast(ScanEvent(h, handlers[h].uid, NoUser, "UNREGISTERED", NULL))
       ELSE /\ \E r \in RfidRows(handlers[h].uid) :
                 handlers' = [handlers EXCEPT ![h].pc = "user",
                                              ![h].user_id = r.user_id]
            /\ UNCHANGED <<emitted, view>>
    /\ UNCHANGED attendance_log

\* mutant of QUser: the check of userRows.length is left out
QUser_NoCheck(h) ==
    /\ handlers[h].pc = "user"
    /\ handlers' = [handlers EXCEPT ![h].pc = "open"]
    /\ UNCHANGED <<attendance_log, emitted, view>>

\* const [userRows] = await dbPool.query(`SELECT u.*, ... WHERE u.user_id = ?`)
QUser(h) ==
    /\ handlers[h].pc = "user"
    /\ IF UserRows(handlers[h].user_id) = {}
       THEN /\ Finish(h)
            /\ Broadcast(ScanEvent(h, handlers[h].uid, NoUser, "NO_DETAILS", NULL))
       ELSE /\ handlers' = [handlers EXCEPT ![h].pc = "open"]
            /\ UNCHANGED <<emitted, view>>
    /\ UNCHANGED attendance_log

\* mutant of QOpen: the status is broadcast when the branch is taken, before
\* the write is awaited
QOpen_EmitEarly(h) ==
    /\ handlers[h].pc = "open"
    /\ LET open == OpenLogins(handlers[h].user_id, handlers[h].currentDate)
       IN IF open # {}
          THEN /\ \E i \in open :
                    handlers' = [handlers EXCEPT ![h].pc = "update", ![h].log_id = i]
               /\ Broadcast(ScanEvent(h, handlers[h].uid, handlers[h].user_id,
                                      "LOGOUT", handlers[h].currentTime))
          ELSE /\ handlers' = [handlers EXCEPT ![h].pc = "insert"]
               /\ Broadcast(ScanEvent(h, handlers[h].uid, handlers[h].user_id,
                                      "LOGIN", handlers[h].currentTime))
    /\ UNCHANGED attendance_log

\* mutant of QOpen: the lookup leaves out "AND log_date = ?"
QOpen_AnyDate(h) ==
    /\ handlers[h].pc = "open"
    /\ LET open == { i \in DOMAIN attendance_log :
                       /\ attendance_log[i].user_id = handlers[h].user_id
                       /\ attendance_log[i].logout_time = NULL }
       IN IF open # {}
          THEN \E i \in open :
                 handlers' = [handlers EXCEPT ![h].pc = "update", ![h].log_id = i]
          ELSE handlers' = [handlers EXCEPT ![h].pc = "insert"]
    /\ UNCHANGED <<attendance_log, emitted, view>>

\* mutant of QOpen: "openLogins.length > 1" for "> 0"
QOpen_OffByOne(h) ==
    /\ handlers[h].pc = "open"
    /\ LET open == OpenLogins(handlers[h].user_id, handlers[h].currentDate)
       IN IF Cardinality(open) > 1
          THEN \E i \in open :
                 handlers' = [handlers EXCEPT ![h].pc = "update", ![h].log_id = i]
          ELSE handlers' = [handlers EXCEPT ![h].pc = "insert"]
    /\ UNCHANGED <<attendance_log, emitted, view>>

\* const [openLogins] = await dbPool.query("SELECT log_id ... LIMIT 1");
\* if (openLogins.length > 0) the UPDATE is issued, else the INSERT
QOpen(h) ==
    /\ handlers[h].pc = "open"
    /\ LET open == OpenLogins(handlers[h].user_id, handlers[h].currentDate)
       IN IF open # {}
          THEN \E i \in open :
                 handlers' = [handlers EXCEPT ![h].pc = "update", ![h].log_id = i]
          ELSE handlers' = [handlers EXCEPT ![h].pc = "insert"]
    /\ UNCHANGED <<attendance_log, emitted, view>>

\* await dbPool.query("UPDATE attendance_log SET logout_time = ? WHERE log_id = ?");
\* eventData.status = 'LOGOUT'; io.emit('scan_event', eventData)
QUpdate(h) ==
    /\ handlers[h].pc = "update"
    /\ attendance_log' = UpdateLogout(handlers[h].log_id, handlers[h].currentTime)
    /\ handlers' = [handlers EXCEPT ![h].pc = "done", ![h].settled = "fulfilled",
                                    ![h].wrote = handlers[h].log_id]
    /\ Broadcast(ScanEvent(h, handlers[h].uid, handlers[h].user_id, "LOGOUT",
                           handlers[h].currentTime))

\* await dbPool.query("INSERT INTO attendance_log ..."); eventData.status = 'LOGIN';
\* io.emit('scan_event', eventData); getTodayBranchCounts() reads the clock
\* and issues its query
QInsert(h) ==
    /\ handlers[h].pc = "insert"
    /\ attendance_log' = InsertLogin(handlers[h].user_id, handlers[h].currentDate,
                                     handlers[h].currentTime)
    /\ handlers' = [handlers EXCEPT ![h].pc = "counts",
                                    ![h].wrote = Len(attendance_log) + 1,
                                    ![h].today = FormatDate(now)]
    /\ Broadcast(ScanEvent(h, handlers[h].uid, handlers[h].user_id, "LOGIN",
                           handlers[h].currentTime))

\* const counts = await getTodayBranchCounts(); io.emit('counts_update', counts)
QCounts(h) ==
    /\ handlers[h].pc = "counts"
    /\ Finish(h)
    /\ Broadcast(CountsUpdate(h, BranchCounts(handlers[h].today)))
    /\ UNCHANGED attendance_log

\* number of queries that have failed so far
Failures ==
    Cardinality({ h \in DOMAIN handlers : handlers[h].failedAt # "" })
    + Cardinality({ b \in DOMAIN batch : batch[b].pc = "failed" })

\* mutant of QueryFails: getTodayBranchCounts is awaited outside the try block
QueryFails_CountsUncaught(h) ==
    /\ handlers[h].pc \in Awaiting
    /\ Failures < MaxFailures
    /\ IF handlers[h].pc = "counts"
       THEN /\ handlers' = [handlers EXCEPT ![h].pc = "done", ![h].settled = "rejected",
                                            ![h].failedAt = handlers[h].pc]
            /\ UNCHANGED <<emitted, view>>
       ELSE /\ handlers' = [handlers EXCEPT ![h].pc = "done", ![h].settled = "fulfilled",
                                            ![h].failedAt = handlers[h].pc]
            /\ Broadcast(ScanEvent(h, handlers[h].uid, handlers[h].user_id, "ERROR", NULL))
    /\ UNCHANGED attendance_log

\* a query of the try block throws:
\* catch (error) { eventData.status = 'ERROR'; io.emit('scan_event', eventData); }
QueryFails(h) ==
    /\ handlers[h].pc \in Awaiting
    /\ Failures < MaxFailures
    /\ handlers' = [handlers EXCEPT ![h].pc = "done", ![h].settled = "fulfilled",
                                    ![h].failedAt = handlers[h].pc]
    /\ Broadcast(ScanEvent(h, handlers[h].uid, handlers[h].user_id, "ERROR", NULL))
    /\ UNCHANGED attendance_log

HandlerFrame ==
    UNCHANGED <<now, rfid_details, users, scannedRecently, timers, batch, cronRan,
                httpVars,
                   programs, branch_visits, deletes>>

----------------------------------------------------------------------------
(* The serial port: parser.on('data', (line) => ...) *)

\* number of duplicate scans so far
Ignored ==
    Cardinality({ i \in DOMAIN emitted : emitted[i].status = "IGNORED" })

\* mutant of OnDataIgnored: a duplicate scan starts the five seconds again
OnDataIgnored_Rearm(l) ==
    /\ StartsWith(l, PREFIX)
    /\ UidOfLine(l) \in scannedRecently
    /\ Ignored < MaxIgnored
    /\ Broadcast(IgnoredEvent(l, UidOfLine(l)))
    /\ timers' = Append(SelectSeq(timers, LAMBDA t : t.uid # UidOfLine(l)),
                        [uid |-> UidOfLine(l), due |-> now + SCAN_TIMEOUT_MS])
    /\ UNCHANGED <<handlers, scannedRecently>>

\* if (scannedRecently.has(uid)) { io.emit('scan_event', {status: 'IGNORED'}); return; }
OnDataIgnored(l) ==
    /\ StartsWith(l, PREFIX)
    /\ UidOfLine(l) \in scannedRecently
    /\ Ignored < MaxIgnored
    /\ Broadcast(IgnoredEvent(l, UidOfLine(l)))
    /\ UNCHANGED <<handlers, scannedRecently, timers>>

\* mutant of OnDataAccepted: scannedRecently.add(uid) is left out
OnDataAccepted_NoAdd(l) ==
    /\ StartsWith(l, PREFIX)
    /\ UidOfLine(l) \notin scannedRecently
    /\ Len(handlers) < MaxScans
    /\ handlers' = Append(handlers, StartScan(UidOfLine(l), l))
    /\ timers' = Append(timers, [uid |-> UidOfLine(l), due |-> now + SCAN_TIMEOUT_MS])
    /\ UNCHANGED <<scannedRecently, emitted, view>>

\* handleCardScan(uid); scannedRecently.add(uid); setTimeout(..., SCAN_TIMEOUT_MS)
OnDataAccepted(l) ==
    /\ StartsWith(l, PREFIX)
    /\ UidOfLine(l) \notin scannedRecently
    /\ Len(handlers) < MaxScans
    /\ handlers' = Append(handlers, StartScan(UidOfLine(l), l))
    /\ scannedRecently' = scannedRecently \cup {UidOfLine(l)}
    /\ timers' = Append(timers, [uid |-> UidOfLine(l), due |-> now + SCAN_TIMEOUT_MS])
    /\ UNCHANGED <<emitted, view>>

\* a line without the prefix
OnDataOther(l) ==
    /\ ~StartsWith(l, PREFIX)
    /\ UNCHANGED <<handlers, scannedRecently, timers, emitted, view>>

OnData(l) ==
    /\ \/ OnDataIgnored(l)
       \/ OnDataAccepted(l)
       \/ OnDataOther(l)
    /\ UNCHANGED <<now, rfid_details, users, attendance_log, batch, cronRan, httpVars,
                   programs, branch_visits, deletes>>

\* setTimeout(() => { scannedRecently.delete(uid); }, SCAN_TIMEOUT_MS): timers of
\* one delay run in the order they were set, never before they are due
TimerFires ==
    /\ timers # <<>>
    /\ Head(timers).due <= now
    /\ scannedRecently' = scannedRecently \ {Head(timers).uid}
    /\ timers' = Tail(timers)
    /\ UNCHANGED <<now, rfid_details, users, attendance_log, handlers, emitted,
                   batch, cronRan, view, httpVars,
                   programs, branch_visits, deletes>>

----------------------------------------------------------------------------
(* Scheduled task: cron.schedule('5 19 * * *', ...) and autoLogoutCurrentDay *)

CronDue == FormatTime(now) = CRON_TIME /\ cronRan # FormatDate(now)

\* the cron callback: autoLogoutCurrentDay() reads the date and issues its UPDATE
CronFires ==
    /\ CronDue
    /\ cronRan' = FormatDate(now)
    /\ batch' = Append(batch, [pc |-> "update", today |-> FormatDate(now)])
    /\ UNCHANGED <<now, rfid_details, users, attendance_log, scannedRecently,
                   timers, handlers, emitted, view, httpVars,
                   programs, branch_visits, deletes>>

\* mutant of CloseDay: "AND logout_time IS NULL" is left out
CloseDay_Reclose(date, time) ==
    [i \in DOMAIN attendance_log |->
        IF attendance_log[i].log_date = date
        THEN [attendance_log[i] EXCEPT !.logout_time = time]
        ELSE attendance_log[i]]

\* UPDATE attendance_log SET logout_time = ? WHERE log_date = ? AND logout_time IS NULL
CloseDay(date, time) ==
    [i \in DOMAIN attendance_log |->
        IF attendance_log[i].log_date = date /\ attendance_log[i].logout_time = NULL
        THEN [attendance_log[i] EXCEPT !.logout_time = time]
        ELSE attendance_log[i]]

\* const [result] = await dbPool.query(`UPDATE ...`, [logoutTime, today])
AutoLogoutQuery(b) ==
    /\ batch[b].pc = "update"
    /\ attendance_log' = CloseDay(batch[b].today, AUTO_LOGOUT_TIME)
    /\ batch' = [batch EXCEPT ![b].pc = "done"]
    /\ UNCHANGED <<now, rfid_details, users, scannedRecently, timers, handlers,
                   emitted, cronRan, view, httpVars,
                   programs, branch_visits, deletes>>

\* catch (error) { console.error('Auto-logout error:', error); }
AutoLogoutFails(b) ==
    /\ batch[b].pc = "update"
    /\ Failures < MaxFailures
    /\ batch' = [batch EXCEPT ![b].pc = "failed"]
    /\ UNCHANGED <<now, rfid_details, users, attendance_log, scannedRecently, timers,
                   handlers, emitted, cronRan, view, httpVars,
                   programs, branch_visits, deletes>>

BatchRunning == { b \in DOMAIN batch : batch[b].pc \in {"update", "cleanup"} }

\* logoutTime = '19:00:00' of cleanupPreviousDays, as seconds of the day
CLEANUP_LOGOUT_TIME == 19 * 3600

\* mutant of ClosePrevious: log_date <= ? instead of log_date < ?
ClosePrevious_Through(date, time) ==
    [i \in DOMAIN attendance_log |->
        IF attendance_log[i].log_date <= date /\ attendance_log[i].logout_time = NULL
        THEN [attendance_log[i] EXCEPT !.logout_time = time]
        ELSE attendance_log[i]]

\* UPDATE attendance_log SET logout_time = ? WHERE log_date < ? AND logout_time IS NULL
ClosePrevious(date, time) ==
    [i \in DOMAIN attendance_log |->
        IF attendance_log[i].log_date < date /\ attendance_log[i].logout_time = NULL
        THEN [attendance_log[i] EXCEPT !.logout_time = time]
        ELSE attendance_log[i]]

\* server.listen(PORT, () => { cleanupPreviousDays(); }): the call as it is
\* when the callback returns, its date read and its UPDATE issued
StartupCleanup == [pc |-> "cleanup", today |-> FormatDate(StartInstant)]

\* const [result] = await dbPool.query(`UPDATE ... log_date < ? ...`, [logoutTime, today])
CleanupQuery(b) ==
    /\ batch[b].pc = "cleanup"
    /\ attendance_log' = ClosePrevious(batch[b].today, CLEANUP_LOGOUT_TIME)
    /\ batch' = [batch EXCEPT ![b].pc = "cleaned"]
    /\ UNCHANGED <<now, rfid_details, users, scannedRecently, timers, handlers,
                   emitted, cronRan, view, httpVars,
                   programs, branch_visits, deletes>>

\* catch (error) { console.error('Cleanup error:', error); }
CleanupFails(b) ==
    /\ batch[b].pc = "cleanup"
    /\ Failures < MaxFailures
    /\ batch' = [batch EXCEPT ![b].pc = "failed"]
    /\ UNCHANGED <<now, rfid_details, users, attendance_log, scannedRecently, timers,
                   handlers, emitted, cronRan, view, httpVars,
                   programs, branch_visits, deletes>>

----------------------------------------------------------------------------
(* Time *)

\* the clock moves to the next instant; the cron job is not skipped
Tick ==
    /\ ~CronDue
    /\ \E t \in Instants :
         /\ t > now
         /\ \A u \in Instants : u > now => t <= u
         /\ now' = t
    /\ UNCHANGED <<rfid_details, users, attendance_log, scannedRecently, timers,
                   handlers, emitted, batch, cronRan, view, httpVars,
                   programs, branch_visits, deletes>>

----------------------------------------------------------------------------
(* HTTP: sessions, isAuthenticated and the routes *)

Clients == {"c1", "c2"}

\* table credentials: username -> password, the password as its characters
Credentials == [u \in {"admin"} |-> <<"p", "w">>]

\* req.body.username and req.body.password as a client may submit them; the
\* empty one stands for a missing field
Usernames == {"", "admin", "ghost"}
Passwords == { <<>>, <<"p", "w">>, <<"p", "w", " ">>, <<"b", "a", "d">> }

\* app.get / app.post: auth = isAuthenticated is in the chain, db = the body
\* queries the database, needs = the body returns before its first query when a
\* required field or file is missing
Route(method, path, auth, db, needs) ==
    [method |-> method, path |-> path, auth |-> auth, db |-> db, needs |-> needs]

PublicRoutes ==
    { Route("GET", "/", FALSE, FALSE, FALSE),
      Route("GET", "/dashboard", FALSE, TRUE, FALSE),
      Route("GET", "/register", FALSE, FALSE, FALSE),
      Route("POST", "/add", FALSE, TRUE, TRUE) }

AdminRoutes ==
    { Route("GET", "/home", TRUE, FALSE, FALSE),
      Route("GET", "/actions/:userType", TRUE, FALSE, FALSE),
      Route("GET", "/reports/student", TRUE, FALSE, FALSE),
      Route("GET", "/reports/faculty", TRUE, FALSE, FALSE),
      Route("POST", "/reports/preview", TRUE, TRUE, FALSE),
      Route("POST", "/reports/download", TRUE, TRUE, FALSE),
      Route("GET", "/manage-student", TRUE, TRUE, FALSE),
      Route("GET", "/manage-faculty", TRUE, TRUE, FALSE),
      Route("POST", "/add-student-manual", TRUE, TRUE, FALSE),
      Route("POST", "/upload-students-excel", TRUE, TRUE, TRUE),
      Route("POST", "/add-faculty-manual", TRUE, TRUE, FALSE),
      Route("POST", "/upload-faculty-excel", TRUE, TRUE, TRUE),
      Route("GET", "/edit-rfid", TRUE, FALSE, FALSE),
      Route("POST", "/edit-rfid/search", TRUE, TRUE, TRUE),
      Route("POST", "/edit-rfid/update", TRUE, TRUE, TRUE),
      Route("GET", "/manage-programs", TRUE, TRUE, FALSE),
      Route("POST", "/manage-programs/add", TRUE, TRUE, TRUE),
      Route("POST", "/manage-programs/delete/:id", TRUE, TRUE, FALSE) }

Routes == PublicRoutes \cup AdminRoutes

Response(c, method, path, status, location, ran, queries) ==
    [client |-> c, method |-> method, path |-> path, user |-> session[c],
     status |-> status, location |-> location, ran |-> ran, queries |-> queries,
     error |-> "", username |-> "", password |-> <<>>, dbFailed |-> FALSE,
     sessionError |-> FALSE, count |-> 0]

\* res.redirect('/login?error=...'): the redirect to /login with its message
LoginError(c, method, path, ran, queries, message) ==
    [Response(c, method, path, 302, "/login", ran, queries) EXCEPT !.error = message]

\* the response of POST /login, with what was submitted
Submitted(r, username, password, dbFails) ==
    [r EXCEPT !.username = username, !.password = password, !.dbFailed = dbFails]

\* mutant of IsAuthenticated: next() is called whatever the session holds
IsAuthenticated_Always(c) == TRUE

\* if (req.session.user) next(); else res.redirect('/login?error=...')
IsAuthenticated(c) == session[c] # NoUser

\* a request to a route: the middleware chain, then the body.  `complete` says
\* whether the request carries the fields the body requires.
Request(c, r, complete) ==
    /\ IF r.auth /\ ~IsAuthenticated(c)
       THEN resp' = LoginError(c, r.method, r.path, FALSE, 0,
                               "Please login to access this page.")
       ELSE resp' = Response(c, r.method, r.path, 200, "", TRUE,
                             IF r.db /\ (complete \/ ~r.needs) THEN 1 ELSE 0)
    /\ UNCHANGED <<session, scanVars, txs, uploads>>

\* app.get('/login'): if (req.session.user) return res.redirect('/home')
GetLogin(c) ==
    /\ IF session[c] # NoUser
       THEN resp' = Response(c, "GET", "/login", 302, "/home", TRUE, 0)
       ELSE resp' = Response(c, "GET", "/login", 200, "", TRUE, 0)
    /\ UNCHANGED <<session, scanVars, txs, uploads>>

\* app.post('/login') of unnamed/part_002: the passwords are compared after
\* trim(), the session is regenerated before the user is stored, and a failed
\* save is logged and answered like a saved one.  regenFails = regenerate calls
\* back with an error (the session it leaves is a new, empty one), kept = the
\* store holds the user although save called back with an error.
PostLogin_part002(c, username, password, dbFails, regenFails, saveFails, kept) ==
    /\ IF username = "" \/ password = <<>>
       THEN /\ resp' = Submitted(LoginError(c, "POST", "/login", TRUE, 0,
                                            "Username and password are required."),
                                 username, password, FALSE)
            /\ UNCHANGED session
       ELSE IF dbFails
       THEN /\ resp' = Submitted(LoginError(c, "POST", "/login", TRUE, 1,
                                            "An error occurred during login."),
                                 username, password, TRUE)
            /\ UNCHANGED session
       ELSE IF username \notin DOMAIN Credentials
                 \/ Trim(password) # Trim(Credentials[username])
       THEN /\ resp' = Submitted(LoginError(c, "POST", "/login", TRUE, 1,
                                            "Invalid username or password."),
                                 username, password, FALSE)
            /\ UNCHANGED session
       ELSE IF regenFails
       THEN /\ resp' = Submitted(LoginError(c, "POST", "/login", TRUE, 1,
                                            "Session error."),
                                 username, password, FALSE)
            /\ session' = [session EXCEPT ![c] = NoUser]
       ELSE /\ resp' = Submitted(Response(c, "POST", "/login", 302, "/home", TRUE, 1),
                                 username, password, FALSE)
            /\ session' = [session EXCEPT
                             ![c] = IF saveFails /\ ~kept THEN NoUser ELSE username]
    /\ UNCHANGED <<scanVars, txs, uploads>>

\* app.post('/login'): dbFails = the SELECT throws, saveFails = req.session.save
\* calls back with an error
PostLogin(c, username, password, dbFails, saveFails) ==
    /\ IF username = "" \/ password = <<>>
       THEN /\ resp' = Submitted(LoginError(c, "POST", "/login", TRUE, 0,
                                            "Username and password are required."),
                                 username, password, FALSE)
            /\ UNCHANGED session
       ELSE IF dbFails
       THEN /\ resp' = Submitted(LoginError(c, "POST", "/login", TRUE, 1,
                                            "An error occurred during login."),
                                 username, password, TRUE)
            /\ UNCHANGED session
       ELSE IF username \notin DOMAIN Credentials \/ password # Credentials[username]
       THEN /\ resp' = Submitted(LoginError(c, "POST", "/login", TRUE, 1,
                                            "Invalid username or password."),
                                 username, password, FALSE)
            /\ UNCHANGED session
       ELSE IF saveFails
       THEN /\ resp' = [Submitted(LoginError(c, "POST", "/login", TRUE, 1,
                                             "Session error during save."),
                                  username, password, FALSE)
                          EXCEPT !.sessionError = TRUE]
            /\ UNCHANGED session
       ELSE /\ resp' = Submitted(Response(c, "POST", "/login", 302, "/home", TRUE, 1),
                                 username, password, FALSE)
            /\ session' = [session EXCEPT ![c] = username]
    /\ UNCHANGED <<scanVars, txs, uploads>>

\* mutant of GetLogout: when destroy calls back with an error the answer is
\* the redirect alone, the cookie and with it the session are kept
GetLogout_KeepOnError(c, destroyFails) ==
    /\ session' = [session EXCEPT ![c] = IF destroyFails THEN session[c] ELSE NoUser]
    /\ resp' = [Response(c, "GET", "/logout", 302, "/login", TRUE, 0)
                  EXCEPT !.sessionError = destroyFails]
    /\ UNCHANGED <<scanVars, txs, uploads>>

\* app.get('/logout'): req.session.destroy((err) => { res.clearCookie('connect.sid');
\* res.redirect('/login') }).  destroyFails = destroy calls back with an error:
\* it is logged, the cookie is cleared all the same, so the client's next
\* request carries no session.
GetLogout(c, destroyFails) ==
    /\ session' = [session EXCEPT ![c] = NoUser]
    /\ resp' = [Response(c, "GET", "/logout", 302, "/login", TRUE, 0)
                  EXCEPT !.sessionError = destroyFails]
    /\ UNCHANGED <<scanVars, txs, uploads>>

----------------------------------------------------------------------------
(* Bindings: POST /add and POST /edit-rfid/update *)

\* the keys of rfid_details: the ER_DUP_ENTRY branch of POST /add answers
\* "Duplicate User ID or UID.", one unique key on user_id and one on uid
SameKey(r, q) == r.user_id = q.user_id \/ r.uid = q.uid

TxAwaiting == {"conn", "begin", "check", "delete", "insert", "commit", "rollback"}

TxRunning == { t \in DOMAIN txs : txs[t].pc \in TxAwaiting }

\* rows another open transaction has deleted or inserted and not yet
\* committed, and the row-to-be of a user whose rows it has deleted (the
\* DELETE locks the key also when it finds no row): a statement that needs
\* one of their keys waits
LockedByOthers(t) ==
    UNION { txs[o].deleted \cup txs[o].inserted
              \cup (IF txs[o].locked
                    THEN {[user_id |-> txs[o].user_id, uid |-> <<"?">>]} ELSE {})
            : o \in TxRunning \ {t} }

\* INSERT INTO rfid_details (user_id, uid) VALUES (?, ?) as the database
\* decides it for the statement of transaction t (0 = autocommit): "wait" while
\* another transaction holds a row with one of the keys, "dup" (ER_DUP_ENTRY)
\* when a row the transaction has not deleted has one of them, "ok" otherwise
InsertOutcome(t, row) ==
    LET own == IF t = 0 THEN {} ELSE txs[t].deleted
    IN IF \E q \in LockedByOthers(t) : SameKey(row, q) THEN "wait"
       ELSE IF \E q \in rfid_details \ own : SameKey(row, q) THEN "dup"
       ELSE "ok"

\* res.redirect(location + '?error=' + message), or '?success=' with no message
Redirect(c, path, location, queries, message) ==
    [Response(c, "POST", path, 302, location, TRUE, queries) EXCEPT !.error = message]

\* mutant of PostAdd: the INSERT succeeds whatever rows the table holds
PostAdd_NoKeys(c, user_id, uid, dbFails) ==
    /\ IF user_id = "" \/ uid = <<>>
       THEN /\ resp' = Redirect(c, "/add", "/register", 0, "All fields are required.")
            /\ UNCHANGED rfid_details
       ELSE /\ resp' = Redirect(c, "/add", "/register", 1, "")
            /\ rfid_details' = rfid_details \cup {[user_id |-> user_id, uid |-> uid]}
    /\ UNCHANGED <<terminalVars, session, txs, uploads>>

\* mutant of PostAdd: the check of the two fields is left out
PostAdd_NoFieldCheck(c, user_id, uid, dbFails) ==
    /\ LET row == [user_id |-> user_id, uid |-> uid]
       IN /\ InsertOutcome(0, row) # "wait"
          /\ IF dbFails
             THEN /\ resp' = Redirect(c, "/add", "/register", 1, "Database error.")
                  /\ UNCHANGED rfid_details
             ELSE IF InsertOutcome(0, row) = "dup"
             THEN /\ resp' = Redirect(c, "/add", "/register", 1,
                                      "Duplicate User ID or UID.")
                  /\ UNCHANGED rfid_details
             ELSE /\ resp' = Redirect(c, "/add", "/register", 1, "")
                  /\ rfid_details' = rfid_details \cup {row}
    /\ UNCHANGED <<terminalVars, session, txs, uploads>>

\* app.post('/add'): one INSERT; dbFails = the INSERT throws for another reason
\* (ER_NO_REFERENCED_ROW_2, connection)
PostAdd(c, user_id, uid, dbFails) ==
    /\ IF user_id = "" \/ uid = <<>>
       THEN /\ resp' = Redirect(c, "/add", "/register", 0, "All fields are required.")
            /\ UNCHANGED rfid_details
       ELSE LET row == [user_id |-> user_id, uid |-> uid]
            IN /\ InsertOutcome(0, row) # "wait"
               /\ IF dbFails
                  THEN /\ resp' = Redirect(c, "/add", "/register", 1, "Database error.")
                       /\ UNCHANGED rfid_details
                  ELSE IF InsertOutcome(0, row) = "dup"
                  THEN /\ resp' = Redirect(c, "/add", "/register", 1,
                                           "Duplicate User ID or UID.")
                       /\ UNCHANGED rfid_details
                  ELSE /\ resp' = Redirect(c, "/add", "/register", 1, "")
                       /\ rfid_details' = rfid_details \cup {row}
    /\ UNCHANGED <<terminalVars, session, txs, uploads>>

\* app.post('/edit-rfid/update', isAuthenticated, ...) up to its first await
StartUpdate(c, user_id, new_uid) ==
    /\ Len(txs) < MaxUpdates
    /\ IF ~IsAuthenticated(c)
       THEN /\ resp' = LoginError(c, "POST", "/edit-rfid/update", FALSE, 0,
                                  "Please login to access this page.")
            /\ UNCHANGED txs
       ELSE IF user_id = ""
       THEN /\ resp' = Redirect(c, "/edit-rfid/update", "/edit-rfid", 0, "User ID missing.")
            /\ UNCHANGED txs
       ELSE /\ txs' = Append(txs, [pc |-> "conn", client |-> c, user_id |-> user_id,
                                   new_uid |-> new_uid, deleted |-> {}, inserted |-> {},
                                   locked |-> FALSE,
                                   failedAt |-> "", result |-> ""])
            /\ UNCHANGED resp
    /\ UNCHANGED <<scanVars, session, uploads>>

\* the frame of a statement inside the transaction: nothing is visible outside
TxFrame == UNCHANGED <<scanVars, session, resp, uploads>>

\* const connection = await dbPool.getConnection()
TxConn(t) ==
    /\ txs[t].pc = "conn"
    /\ txs' = [txs EXCEPT ![t].pc = "begin"]
    /\ TxFrame

\* await connection.beginTransaction()
TxBegin(t) ==
    /\ txs[t].pc = "begin"
    /\ txs' = [txs EXCEPT ![t].pc = IF txs[t].new_uid # <<>> THEN "check" ELSE "delete"]
    /\ TxFrame

\* SELECT user_id FROM rfid_details WHERE uid = ? AND user_id != ?;
\* if (existingUidRows.length > 0) throw new Error(...)
TxCheck(t) ==
    /\ txs[t].pc = "check"
    /\ txs' = [txs EXCEPT ![t].pc =
                 IF \E r \in rfid_details :
                        r.uid = txs[t].new_uid /\ r.user_id # txs[t].user_id
                 THEN "rollback" ELSE "delete",
                          ![t].failedAt =
                 IF \E r \in rfid_details :
                        r.uid = txs[t].new_uid /\ r.user_id # txs[t].user_id
                 THEN "assigned" ELSE ""]
    /\ TxFrame

\* DELETE FROM rfid_details WHERE user_id = ?
TxDelete(t) ==
    /\ txs[t].pc = "delete"
    /\ \A q \in LockedByOthers(t) : q.user_id # txs[t].user_id
    /\ txs' = [txs EXCEPT ![t].pc = IF txs[t].new_uid # <<>> THEN "insert" ELSE "commit",
                          ![t].locked = TRUE,
                          ![t].deleted = { r \in rfid_details : r.user_id = txs[t].user_id }]
    /\ TxFrame

\* INSERT INTO rfid_details (user_id, uid) VALUES (?, ?)
TxInsert(t) ==
    LET row == [user_id |-> txs[t].user_id, uid |-> txs[t].new_uid]
    IN /\ txs[t].pc = "insert"
       /\ InsertOutcome(t, row) # "wait"
       /\ IF InsertOutcome(t, row) = "dup"
          THEN txs' = [txs EXCEPT ![t].pc = "rollback", ![t].failedAt = "dup"]
          ELSE txs' = [txs EXCEPT ![t].pc = "commit", ![t].inserted = {row}]
       /\ TxFrame

\* mutant of TxCommit: the DELETE was made outside the transaction, so only
\* the INSERT waits for the commit
TxCommit_InsertOnly(t) ==
    /\ txs[t].pc = "commit"
    /\ rfid_details' = rfid_details \cup txs[t].inserted
    /\ txs' = [txs EXCEPT ![t].pc = "done", ![t].result = "committed"]
    /\ resp' = Redirect(txs[t].client, "/edit-rfid/update", "/edit-rfid", 4, "")
    /\ UNCHANGED <<terminalVars, session, uploads>>

\* await connection.commit(); res.redirect('/edit-rfid?success=...')
TxCommit(t) ==
    /\ txs[t].pc = "commit"
    /\ rfid_details' = (rfid_details \ txs[t].deleted) \cup txs[t].inserted
    /\ txs' = [txs EXCEPT ![t].pc = "done", ![t].result = "committed"]
    /\ resp' = Redirect(txs[t].client, "/edit-rfid/update", "/edit-rfid", 4, "")
    /\ UNCHANGED <<terminalVars, session, uploads>>

\* the statements that have thrown so far
TxFailures ==
    Cardinality({ t \in DOMAIN txs : txs[t].failedAt \notin {"", "assigned", "dup"} })

\* a statement of the try block throws (lock wait timeout, deadlock, lost
\* connection, ...): the catch block is entered
TxFails(t) ==
    /\ txs[t].pc \in {"begin", "check", "delete", "insert", "commit"}
    /\ TxFailures < MaxFailures
    /\ txs' = [txs EXCEPT ![t].pc = "rollback", ![t].failedAt = txs[t].pc]
    /\ TxFrame

\* await dbPool.getConnection() throws: it is outside the try block, the
\* handler rejects and no response is sent
TxConnFails(t) ==
    /\ txs[t].pc = "conn"
    /\ TxFailures < MaxFailures
    /\ txs' = [txs EXCEPT ![t].pc = "done", ![t].failedAt = "conn", ![t].result = "rejected"]
    /\ TxFrame

\* mutant of TxRollback: what the transaction deleted stays deleted
TxRollback_KeepDelete(t) ==
    /\ txs[t].pc = "rollback"
    /\ rfid_details' = rfid_details \ txs[t].deleted
    /\ txs' = [txs EXCEPT ![t].pc = "done", ![t].result = "rolledback"]
    /\ resp' = Redirect(txs[t].client, "/edit-rfid/update", "/edit-rfid", 4, "Update failed.")
    /\ UNCHANGED <<terminalVars, session, uploads>>

\* catch (error) { await connection.rollback(); res.redirect('/edit-rfid?error=...') }
TxRollback(t) ==
    /\ txs[t].pc = "rollback"
    /\ txs' = [txs EXCEPT ![t].pc = "done", ![t].result = "rolledback",
                          ![t].deleted = {}, ![t].inserted = {}, ![t].locked = FALSE]
    /\ resp' = Redirect(txs[t].client, "/edit-rfid/update", "/edit-rfid", 4,
                        IF txs[t].failedAt = "assigned" THEN "already assigned"
                        ELSE "Update failed.")
    /\ UNCHANGED <<scanVars, session, uploads>>

EditRfidUpdate(t) ==
    \/ TxConn(t)
    \/ TxBegin(t)
    \/ TxCheck(t)
    \/ TxDelete(t)
    \/ TxInsert(t)
    \/ TxCommit(t)
    \/ TxFails(t)
    \/ TxConnFails(t)
    \/ TxRollback(t)

\* the browser the bindings are edited from
Console == "c1"

\* what the console submits as user_id and as uid
BodyUserIds == {"", "u1", "u2"}
BodyUids == { <<>>, <<"A">>, <<"B">> }

----------------------------------------------------------------------------
(* Rosters: POST /add-student-manual, /upload-students-excel, /upload-faculty-excel *)

\* table departments
Departments == {"d1"}

\* the table the upload looks a row's program (students) or department
\* (faculty) up in
Referenced(kind) == IF kind = "student" THEN Programs ELSE Departments

\* the first row at or after i with a user_id: if (!user_id) continue
RECURSIVE NextRow(_, _)
NextRow(sheet, i) ==
    IF i > Len(sheet) THEN i
    ELSE IF sheet[i].user_id = "" THEN NextRow(sheet, i + 1)
    ELSE i

UpAwaiting == {"conn", "read", "lookup", "begin", "insert", "commit", "rollback"}

UpRunning == { k \in DOMAIN uploads : uploads[k].pc \in UpAwaiting }

\* the row of users a looked-up row of the sheet becomes
UserRow(kind, r) ==
    [user_type |-> kind, program_id |-> IF kind = "student" THEN r.ref ELSE "none"]

\* user ids an open transaction has inserted and not yet committed
PendingIds == UNION { uploads[k].inserted : k \in UpRunning }

\* app.post('/add-student-manual', isAuthenticated, ...): one INSERT
AddStudentManual(c, user_id, program_id, dbFails) ==
    /\ IF ~IsAuthenticated(c)
       THEN /\ resp' = LoginError(c, "POST", "/add-student-manual", FALSE, 0,
                                  "Please login to access this page.")
            /\ UNCHANGED users
       ELSE /\ user_id \notin PendingIds
            /\ IF user_id \in DOMAIN users
               THEN /\ resp' = Redirect(c, "/add-student-manual", "/manage-student", 1,
                                        "ID exists.")
                    /\ UNCHANGED users
               ELSE IF dbFails \/ program_id \notin programs
               THEN /\ resp' = Redirect(c, "/add-student-manual", "/manage-student", 1,
                                        "Failed.")
                    /\ UNCHANGED users
               ELSE /\ resp' = Redirect(c, "/add-student-manual", "/manage-student", 1, "")
                    /\ users' = [u \in DOMAIN users \cup {user_id} |->
                                   IF u = user_id
                                   THEN [user_type |-> "student", program_id |-> program_id]
                                   ELSE users[u]]
    /\ UNCHANGED <<rosterFrame, session, txs, uploads>>

\* where the answer of an upload redirects to
ManagePage(kind) == IF kind = "student" THEN "/manage-student" ELSE "/manage-faculty"
UploadPath(kind) ==
    IF kind = "student" THEN "/upload-students-excel" ELSE "/upload-faculty-excel"

\* app.post('/upload-...-excel', isAuthenticated, upload.single('userFile'), ...)
\* up to its first await; hasFile = req.file is set
StartUpload(c, kind, hasFile, sheet) ==
    /\ Len(uploads) < MaxUploads
    /\ IF ~IsAuthenticated(c)
       THEN /\ resp' = LoginError(c, "POST", UploadPath(kind), FALSE, 0,
                                  "Please login to access this page.")
            /\ UNCHANGED uploads
       ELSE IF ~hasFile
       THEN /\ resp' = Redirect(c, UploadPath(kind), ManagePage(kind), 0, "No file.")
            /\ UNCHANGED uploads
       ELSE /\ uploads' = Append(uploads,
                            [pc |-> "conn", client |-> c, kind |-> kind, sheet |-> sheet,
                             i |-> 1, toInsert |-> <<>>, inserted |-> {},
                             failedAt |-> "", result |-> ""])
            /\ UNCHANGED resp
    /\ UNCHANGED <<scanVars, session, txs>>

UpFrame == UNCHANGED <<scanVars, session, txs>>

\* the loop from row i on, up to its next await: rows without a user_id are
\* skipped; after the last row the batch is inserted, or with nothing to
\* insert the answer is the redirect reporting 0 rows
ContinueRows(k, i, toInsert) ==
    LET j == NextRow(uploads[k].sheet, i)
        kind == uploads[k].kind
    IN IF j <= Len(uploads[k].sheet)
       THEN /\ uploads' = [uploads EXCEPT ![k].pc = "lookup", ![k].i = j,
                                          ![k].toInsert = toInsert]
            /\ UNCHANGED resp
       ELSE IF toInsert # <<>>
       THEN /\ uploads' = [uploads EXCEPT ![k].pc = "begin", ![k].i = j,
                                          ![k].toInsert = toInsert]
            /\ UNCHANGED resp
       ELSE /\ uploads' = [uploads EXCEPT ![k].pc = "done", ![k].i = j,
                                          ![k].result = "success"]
            /\ resp' = Redirect(uploads[k].client, UploadPath(kind), ManagePage(kind), 1, "")

\* const connection = await dbPool.getConnection()
UpConn(k) ==
    /\ uploads[k].pc = "conn"
    /\ uploads' = [uploads EXCEPT ![k].pc = "read"]
    /\ UpFrame /\ UNCHANGED resp

\* await workbook.xlsx.readFile(req.file.path), then the loop up to its first query
UpRead(k) ==
    /\ uploads[k].pc = "read"
    /\ ContinueRows(k, 1, <<>>)
    /\ UpFrame

\* mutant of UpLookup: the row is inserted as soon as its program is found
UpLookup_InsertEach(k) ==
    LET U == uploads[k]
        r == U.sheet[U.i]
    IN /\ U.pc = "lookup"
       /\ IF r.ref \notin Referenced(U.kind)
          THEN /\ uploads' = [uploads EXCEPT ![k].pc = "rollback", ![k].failedAt = "notfound"]
               /\ UNCHANGED <<resp, users>>
          ELSE /\ ContinueRows(k, U.i + 1, Append(U.toInsert, r))
               /\ users' = [u \in DOMAIN users \cup {r.user_id} |->
                              IF u = r.user_id THEN UserRow(U.kind, r) ELSE users[u]]
       /\ UNCHANGED <<rosterFrame, session, txs>>

\* const [programRows] = await connection.query('SELECT program_id FROM programs ...');
\* if (programRows.length === 0) throw new Error(...); studentsToInsert.push(...)
UpLookup(k) ==
    LET U == uploads[k]
        r == U.sheet[U.i]
    IN /\ U.pc = "lookup"
       /\ IF r.ref \notin Referenced(U.kind)
          THEN /\ uploads' = [uploads EXCEPT ![k].pc = "rollback", ![k].failedAt = "notfound"]
               /\ UNCHANGED resp
          ELSE ContinueRows(k, U.i + 1, Append(U.toInsert, r))
       /\ UpFrame

\* await connection.beginTransaction()
UpBegin(k) ==
    /\ uploads[k].pc = "begin"
    /\ uploads' = [uploads EXCEPT ![k].pc = "insert"]
    /\ UpFrame /\ UNCHANGED resp

\* INSERT INTO users (...) VALUES ?  with all the rows: ER_DUP_ENTRY when one
\* of the ids is in users or twice in the batch; it waits while another open
\* transaction holds one of the ids
UpInsert(k) ==
    LET U == uploads[k]
        ids == { U.toInsert[n].user_id : n \in DOMAIN U.toInsert }
    IN /\ U.pc = "insert"
       /\ ids \cap UNION { uploads[o].inserted : o \in UpRunning \ {k} } = {}
       /\ IF ids \cap DOMAIN users # {} \/ Cardinality(ids) < Len(U.toInsert)
          THEN uploads' = [uploads EXCEPT ![k].pc = "rollback", ![k].failedAt = "dup"]
          ELSE uploads' = [uploads EXCEPT ![k].pc = "commit", ![k].inserted = ids]
       /\ UpFrame /\ UNCHANGED resp

\* await connection.commit(); res.redirect(`...?success=${studentsToInsert.length} uploaded!`)
UpCommit(k) ==
    LET U == uploads[k]
        rowOf(u) == U.toInsert[CHOOSE n \in DOMAIN U.toInsert : U.toInsert[n].user_id = u]
    IN /\ U.pc = "commit"
       /\ users' = [u \in DOMAIN users \cup U.inserted |->
                      IF u \in U.inserted THEN UserRow(U.kind, rowOf(u)) ELSE users[u]]
       /\ uploads' = [uploads EXCEPT ![k].pc = "done", ![k].result = "success"]
       /\ resp' = [Redirect(U.client, UploadPath(U.kind), ManagePage(U.kind),
                            Len(U.toInsert) + 1, "")
                     EXCEPT !.count = Len(U.toInsert)]
       /\ UNCHANGED <<rosterFrame, session, txs>>

\* the awaits that have thrown so far
UpFailures ==
    Cardinality({ k \in DOMAIN uploads : uploads[k].failedAt \notin {"", "notfound", "dup"} })

\* an await of the try block throws: unreadable file, failed query, failed commit
UpFails(k) ==
    /\ uploads[k].pc \in {"read", "lookup", "begin", "insert", "commit"}
    /\ UpFailures < MaxFailures
    /\ uploads' = [uploads EXCEPT ![k].pc = "rollback", ![k].failedAt = uploads[k].pc]
    /\ UpFrame /\ UNCHANGED resp

\* await dbPool.getConnection() throws, outside the try block: no response
UpConnFails(k) ==
    /\ uploads[k].pc = "conn"
    /\ UpFailures < MaxFailures
    /\ uploads' = [uploads EXCEPT ![k].pc = "done", ![k].failedAt = "conn",
                                  ![k].result = "rejected"]
    /\ UpFrame /\ UNCHANGED resp

\* catch (error) { await connection.rollback(); res.redirect(`...?error=${error.message}`) }
UpRollback(k) ==
    LET U == uploads[k]
    IN /\ U.pc = "rollback"
       /\ uploads' = [uploads EXCEPT ![k].pc = "done", ![k].result = "rolledback",
                                     ![k].inserted = {}]
       /\ resp' = Redirect(U.client, UploadPath(U.kind), ManagePage(U.kind), U.i,
                           IF U.failedAt = "notfound" THEN "not found" ELSE "error")
       /\ UpFrame

UploadExcel(k) ==
    \/ UpConn(k)
    \/ UpRead(k)
    \/ UpLookup(k)
    \/ UpBegin(k)
    \/ UpInsert(k)
    \/ UpCommit(k)
    \/ UpFails(k)
    \/ UpConnFails(k)
    \/ UpRollback(k)

\* a row of a sheet: the user_id cell and the program (degree and branch code)
\* or department cell
SheetRow(user_id, ref) == [user_id |-> user_id, ref |-> ref]

\* the files uploaded: two good rows; a good row, a row without a user_id and
\* a row naming no program; a row without a user_id naming no program, then
\* a good row; a row of a user already in the table; the same id twice; a
\* sheet with no data row with an id
Sheets ==
    { <<SheetRow("u4", "p1"), SheetRow("u5", "p2")>>,
      <<SheetRow("u4", "p1"), SheetRow("", "p1"), SheetRow("u5", "px")>>,
      <<SheetRow("", "px"), SheetRow("u4", "p1")>>,
      <<SheetRow("u4", "p1"), SheetRow("u1", "p1")>>,
      <<SheetRow("u4", "p1"), SheetRow("u4", "p2")>>,
      <<SheetRow("", "p1")>>,
      <<SheetRow("u4", "d1"), SheetRow("u5", "d1")>> }

----------------------------------------------------------------------------
(* Programs: POST /manage-programs/delete/:id *)

MaxDeletes == 2  \* POST /manage-programs/delete requests started

DeletePath == "/manage-programs/delete"

\* SELECT COUNT(*) as count FROM users WHERE program_id = ?
StudentCount(id) == Cardinality({ u \in DOMAIN users : users[u].program_id = id })

DelFrame ==
    UNCHANGED <<now, rfid_details, users, attendance_log, scannedRecently, timers,
                handlers, emitted, batch, cronRan, view, branch_visits,
                session, txs, uploads>>

\* app.post('/manage-programs/delete/:id', isAuthenticated, ...) up to its
\* first await
StartDelete(c, id) ==
    /\ Len(deletes) < MaxDeletes
    /\ IF ~IsAuthenticated(c)
       THEN /\ resp' = LoginError(c, "POST", DeletePath, FALSE, 0,
                                  "Please login to access this page.")
            /\ UNCHANGED deletes
       ELSE /\ deletes' = Append(deletes, [pc |-> "count", client |-> c, id |-> id,
                                           failedAt |-> "", result |-> ""])
            /\ UNCHANGED resp
    /\ UNCHANGED programs
    /\ DelFrame

\* the request's answer: a redirect to /manage-programs
DeleteAnswer(d, queries, message, count) ==
    [Redirect(deletes[d].client, DeletePath, "/manage-programs", queries, message)
        EXCEPT !.count = count]

\* const [studentCheck] = await dbPool.query('SELECT COUNT(*) ...');
\* if (studentCheck[0].count > 0) return res.redirect(`...Cannot delete: ...`)
DelCount(d) ==
    /\ deletes[d].pc = "count"
    /\ IF StudentCount(deletes[d].id) > 0
       THEN /\ deletes' = [deletes EXCEPT ![d].pc = "done", ![d].result = "assigned"]
            /\ resp' = DeleteAnswer(d, 1, "Cannot delete: student(s) assigned.",
                                    StudentCount(deletes[d].id))
       ELSE /\ deletes' = [deletes EXCEPT ![d].pc = "delete"]
            /\ UNCHANGED resp
    /\ UNCHANGED programs
    /\ DelFrame

\* mutant of DelDelete: the table users has no foreign key on programs
DelDelete_NoForeignKey(d) ==
    /\ deletes[d].pc = "delete"
    /\ IF deletes[d].id \in programs
       THEN /\ programs' = programs \ {deletes[d].id}
            /\ deletes' = [deletes EXCEPT ![d].pc = "done", ![d].result = "deleted"]
            /\ resp' = DeleteAnswer(d, 2, "", 0)
       ELSE /\ deletes' = [deletes EXCEPT ![d].pc = "done", ![d].result = "notfound"]
            /\ resp' = DeleteAnswer(d, 2, "Not found.", 0)
            /\ UNCHANGED programs
    /\ DelFrame

\* const [result] = await dbPool.query('DELETE FROM programs WHERE program_id = ?');
\* the database refuses with ER_ROW_IS_REFERENCED_2 while a row of users
\* refers to the program
DelDelete(d) ==
    /\ deletes[d].pc = "delete"
    /\ IF StudentCount(deletes[d].id) > 0
       THEN /\ deletes' = [deletes EXCEPT ![d].pc = "done", ![d].result = "referenced",
                                          ![d].failedAt = "delete"]
            /\ resp' = DeleteAnswer(d, 2, "Cannot delete: Referenced by users.", 0)
            /\ UNCHANGED programs
       ELSE IF deletes[d].id \in programs
       THEN /\ programs' = programs \ {deletes[d].id}
            /\ deletes' = [deletes EXCEPT ![d].pc = "done", ![d].result = "deleted"]
            /\ resp' = DeleteAnswer(d, 2, "", 0)
       ELSE /\ deletes' = [deletes EXCEPT ![d].pc = "done", ![d].result = "notfound"]
            /\ resp' = DeleteAnswer(d, 2, "Not found.", 0)
            /\ UNCHANGED programs
    /\ DelFrame

\* a query throws another error: res.redirect('/manage-programs?error=Failed.')
DelFails(d) ==
    /\ deletes[d].pc \in {"count", "delete"}
    /\ Cardinality({ x \in DOMAIN deletes : deletes[x].result = "failed" }) < MaxFailures
    /\ deletes' = [deletes EXCEPT ![d].pc = "done", ![d].result = "failed",
                                  ![d].failedAt = deletes[d].pc]
    /\ resp' = [DeleteAnswer(d, IF deletes[d].pc = "count" THEN 1 ELSE 2, "Failed.", 0)
                   EXCEPT !.dbFailed = TRUE]
    /\ UNCHANGED programs
    /\ DelFrame

\* what the console submits as :id
ParamIds == Programs \cup {"p9"}

----------------------------------------------------------------------------
(* The tables the terminal starts with, and the lines the reader sends *)

\* uid A is the card of student u1, uid C is bound to u3, who has no row in
\* users, and uid D is bound to nobody
InitRfid ==
    { [user_id |-> "u1", uid |-> <<"A">>],
      [user_id |-> "u3", uid |-> <<"C">>] }

InitUsers ==
    [u \in {"u1", "u2"} |->
        IF u = "u1" THEN [user_type |-> "student", program_id |-> "p1"]
        ELSE [user_type |-> "faculty", program_id |-> "none"]]

\* attendance_log as an earlier run of the server may have left it: empty, or
\* with a session u1 opened this morning
InitLogs ==
    { <<>>,
      <<[user_id |-> "u1", log_date |-> FormatDate(StartInstant),
         login_time |-> 9 * 3600, logout_time |-> NULL]>> }

\* what the Arduino sketch prints for a card
CardLine(c) == PREFIX \o <<" ", c>>

Lines ==
    { CardLine("A"), CardLine("C"), CardLine("D"), <<"R", "e", "a", "d", "y">> }

\* branch_visits as the scans that wrote the rows of log left it: one row for
\* each date and branch with a visit, counting the visits
VisitsOf(log) ==
    LET branchOf(i) == users[log[i].user_id].program_id
        keys == { <<log[i].log_date, branchOf(i)>> : i \in DOMAIN log }
    IN [k \in keys |->
          Cardinality({ i \in DOMAIN log : <<log[i].log_date, branchOf(i)>> = k })]

\* the state when the listen callback has returned: logs = what attendance_log
\* may hold, calls = the batch updates already issued
InitWith(logs, calls) ==
    /\ now = StartInstant
    /\ rfid_details = InitRfid
    /\ users = InitUsers
    /\ attendance_log \in logs
    /\ scannedRecently = {}
    /\ timers = <<>>
    /\ handlers = <<>>
    /\ emitted = <<>>
    /\ batch = calls
    /\ cronRan = NULL
    /\ view = TodaysLog(FormatDate(now))
    /\ session = [c \in Clients |-> NoUser]
    /\ resp = [client |-> "", method |-> "", path |-> "", user |-> NoUser,
               status |-> 0, location |-> "", ran |-> FALSE, queries |-> 0,
               error |-> "", username |-> "", password |-> <<>>, dbFailed |-> FALSE,
               sessionError |-> FALSE, count |-> 0]
    /\ txs = <<>>
    /\ uploads = <<>>
    /\ programs = Programs
    /\ branch_visits = VisitsOf(attendance_log)
    /\ deletes = <<>>

\* the terminal once the startup cleanup has completed
Init == InitWith(InitLogs, <<>>)

\* attendance_log as a server stopped on the day before may have left it:
\* an open and a closed session of that day, an open and a closed one of today
StartupLogs ==
    { << [user_id |-> "u1", log_date |-> FormatDate(StartInstant) - 1,
          login_time |-> 9 * 3600, logout_time |-> NULL],
         [user_id |-> "u2", log_date |-> FormatDate(StartInstant) - 1,
          login_time |-> 9 * 3600, logout_time |-> 17 * 3600],
         [user_id |-> "u2", log_date |-> FormatDate(StartInstant),
          login_time |-> 8 * 3600, logout_time |-> 12 * 3600],
         [user_id |-> "u1", log_date |-> FormatDate(StartInstant),
          login_time |-> 9 * 3600, logout_time |-> NULL] >> }

\* the terminal while the startup cleanup is still to complete
InitStartup == InitWith(StartupLogs, <<StartupCleanup>>)


Handler(h) ==
    /\ \/ QRfid(h)
       \/ QUser(h)
       \/ QOpen(h)
       \/ QUpdate(h)
       \/ QInsert(h)
       \/ QCounts(h)
       \/ QueryFails(h)
    /\ HandlerFrame

\* the terminal: reader, handlers, timers, cron job and clock
NextOn(lines) ==
    \/ \E l \in lines : OnData(l)
    \/ \E h \in DOMAIN handlers : Handler(h)
    \/ TimerFires
    \/ CronFires
    \/ \E b \in DOMAIN batch : AutoLogoutQuery(b)
    \/ \E b \in DOMAIN batch : AutoLogoutFails(b)
    \/ Tick

Next == NextOn(Lines)

Spec == Init /\ [][Next]_vars

\* the web console
NextHttp ==
    \/ \E c \in Clients, r \in Routes, complete \in BOOLEAN : Request(c, r, complete)
    \/ \E c \in Clients : GetLogin(c)
    \/ \E c \in Clients, u \in Usernames, p \in Passwords, d \in BOOLEAN, s \in BOOLEAN :
         PostLogin(c, u, p, d, s)
    \/ \E c \in Clients, f \in BOOLEAN : GetLogout(c, f)

\* the terminal from the moment it listens, with one card
NextStartup ==
    \/ NextOn({CardLine("A")})
    \/ \E b \in DOMAIN batch : CleanupQuery(b)
    \/ \E b \in DOMAIN batch : CleanupFails(b)

SpecStartup == InitStartup /\ [][NextStartup]_vars

SpecHttp == Init /\ [][NextHttp]_vars

\* the web console with the POST /login of both builds
NextLogin ==
    \/ NextHttp
    \/ \E c \in Clients, u \in Usernames, p \in Passwords :
         \E d \in BOOLEAN, g \in BOOLEAN, s \in BOOLEAN, k \in BOOLEAN :
            PostLogin_part002(c, u, p, d, g, s, k)

SpecLogin == Init /\ [][NextLogin]_vars

\* the console and the registration page changing the bindings
NextBindings ==
    \/ PostLogin(Console, "admin", Credentials["admin"], FALSE, FALSE)
    \/ \E u \in BodyUserIds, x \in BodyUids, d \in BOOLEAN : PostAdd(Console, u, x, d)
    \/ \E u \in BodyUserIds, x \in BodyUids : StartUpdate(Console, u, x)
    \/ \E t \in DOMAIN txs : EditRfidUpdate(t)

SpecBindings == Init /\ [][NextBindings]_vars

\* the console adding users, one by one and from files
NextRoster ==
    \/ PostLogin(Console, "admin", Credentials["admin"], FALSE, FALSE)
    \/ \E u \in {"u4", "u5"}, d \in BOOLEAN : AddStudentManual(Console, u, "p1", d)
    \/ \E kind \in {"student", "faculty"}, f \in BOOLEAN, sheet \in Sheets :
         StartUpload(Console, kind, f, sheet)
    \/ \E k \in DOMAIN uploads : UploadExcel(k)

SpecRoster == Init /\ [][NextRoster]_vars

\* the cron time of the day after the last of Instants
NextCronTime == At(2, 19, 5, 0)

\* the clock moves on from the last of Instants to the next run of the cron job
TickLater ==
    /\ ~CronDue
    /\ \A t \in Instants : t <= now
    /\ now < NextCronTime
    /\ now' = NextCronTime
    /\ UNCHANGED <<rfid_details, users, attendance_log, scannedRecently, timers,
                   handlers, emitted, batch, cronRan, view, httpVars,
                   programs, branch_visits, deletes>>

\* the terminal with one card, running on through the cron job of the next day
NextDaily ==
    \/ NextOn({CardLine("A")})
    \/ TickLater

\* the server keeps running: the clock moves on, the cron job fires when it is
\* due, and every query that was issued is answered
Running2Days ==
    /\ WF_vars(Tick \/ TickLater)
    /\ WF_vars(CronFires)
    /\ WF_vars(TimerFires)
    /\ WF_vars(\E b \in DOMAIN batch : AutoLogoutQuery(b))
    /\ WF_vars(\E h \in DOMAIN handlers : Handler(h))

SpecDaily == Init /\ [][NextDaily]_vars /\ Running2Days

\* the terminal with the cards of two users, a student and a member of faculty
InitCards ==
    /\ now = StartInstant
    /\ rfid_details = InitRfid \cup { [user_id |-> "u2", uid |-> <<"B">>] }
    /\ users = InitUsers
    /\ attendance_log \in InitLogs
    /\ scannedRecently = {}
    /\ timers = <<>>
    /\ handlers = <<>>
    /\ emitted = <<>>
    /\ batch = <<>>
    /\ cronRan = NULL
    /\ view = TodaysLog(FormatDate(now))
    /\ session = [c \in Clients |-> NoUser]
    /\ resp = [client |-> "", method |-> "", path |-> "", user |-> NoUser,
               status |-> 0, location |-> "", ran |-> FALSE, queries |-> 0,
               error |-> "", username |-> "", password |-> <<>>, dbFailed |-> FALSE,
               sessionError |-> FALSE, count |-> 0]
    /\ txs = <<>>
    /\ uploads = <<>>
    /\ programs = Programs
    /\ branch_visits = VisitsOf(attendance_log)
    /\ deletes = <<>>

NextCards == NextOn({ CardLine("A"), CardLine("B") })

SpecCards == InitCards /\ [][NextCards]_vars

----------------------------------------------------------------------------
(* The build part_000: handleCardScan with the table branch_visits.  Its
   tables rfid_details (roll_no, uid), students_with_branch (roll_no, branch)
   and attendance_log (roll_no, ...) are the model's rfid_details, users
   (program_id = branch) and attendance_log. *)

Awaiting_part000 == Awaiting \cup {"visits"}

\* await dbPool.query("INSERT INTO attendance_log ..."); eventData.status = 'LOGIN';
\* the INSERT INTO branch_visits is issued
QInsert_part000(h) ==
    /\ handlers[h].pc = "insert"
    /\ attendance_log' = InsertLogin(handlers[h].user_id, handlers[h].currentDate,
                                     handlers[h].currentTime)
    /\ handlers' = [handlers EXCEPT ![h].pc = "visits",
                                    ![h].wrote = Len(attendance_log) + 1]
    /\ UNCHANGED <<emitted, view, branch_visits>>

\* INSERT INTO branch_visits (visit_date, branch, visit_count) VALUES (?, ?, 1)
\*   ON DUPLICATE KEY UPDATE visit_count = visit_count + 1
UpsertVisit(date, branch) ==
    [k \in DOMAIN branch_visits \cup { <<date, branch>> } |->
        IF k = <<date, branch>>
        THEN (IF k \in DOMAIN branch_visits THEN branch_visits[k] + 1 ELSE 1)
        ELSE branch_visits[k]]

\* await dbPool.query(`INSERT INTO branch_visits ...`, [currentDate, branch]);
\* the SELECT of the day's counts is issued
QVisits(h) ==
    /\ handlers[h].pc = "visits"
    /\ branch_visits' = UpsertVisit(handlers[h].currentDate,
                                    users[handlers[h].user_id].program_id)
    /\ handlers' = [handlers EXCEPT ![h].pc = "counts"]
    /\ UNCHANGED <<attendance_log, emitted, view>>

\* SELECT branch, visit_count FROM branch_visits WHERE visit_date = ?
VisitsOn(date) ==
    [k \in { x \in DOMAIN branch_visits : x[1] = date } |-> branch_visits[k]]

\* const [counts] = await dbPool.query("SELECT ... FROM branch_visits ...");
\* io.emit('counts_update', counts); io.emit('scan_event', eventData)
QCounts_part000(h) ==
    /\ handlers[h].pc = "counts"
    /\ Finish(h)
    /\ LET counts == CountsUpdate(h, VisitsOn(handlers[h].currentDate))
           login == ScanEvent(h, handlers[h].uid, handlers[h].user_id, "LOGIN",
                              handlers[h].currentTime)
       IN /\ emitted' = Append(Append(emitted, counts), login)
          /\ view' = ViewApply(ViewApply(view, counts), login)
    /\ UNCHANGED <<attendance_log, branch_visits>>

\* a query of the try block throws:
\* catch (error) { eventData.status = 'ERROR'; io.emit('scan_event', eventData); }
QueryFails_part000(h) ==
    /\ handlers[h].pc \in Awaiting_part000
    /\ Failures < MaxFailures
    /\ handlers' = [handlers EXCEPT ![h].pc = "done", ![h].settled = "fulfilled",
                                    ![h].failedAt = handlers[h].pc]
    /\ Broadcast(ScanEvent(h, handlers[h].uid, handlers[h].user_id, "ERROR", NULL))
    /\ UNCHANGED <<attendance_log, branch_visits>>

Handler_part000(h) ==
    /\ \/ QRfid(h) /\ UNCHANGED branch_visits
       \/ QUser(h) /\ UNCHANGED branch_visits
       \/ QOpen(h) /\ UNCHANGED branch_visits
       \/ QUpdate(h) /\ UNCHANGED branch_visits
       \/ QInsert_part000(h)
       \/ QVisits(h)
       \/ QCounts_part000(h)
       \/ QueryFails_part000(h)
    /\ UNCHANGED <<now, rfid_details, users, scannedRecently, timers, batch, cronRan,
                   httpVars, programs, deletes>>

\* the clock of a build without a cron job moves to the next instant
Tick_part000 ==
    /\ \E t \in Instants :
         /\ t > now
         /\ \A u \in Instants : u > now => t <= u
         /\ now' = t
    /\ UNCHANGED <<rfid_details, users, attendance_log, scannedRecently, timers,
                   handlers, emitted, batch, cronRan, view, httpVars,
                   programs, branch_visits, deletes>>

\* the terminal of part_000: reader, handlers, timers and clock
NextVisits ==
    \/ \E l \in {CardLine("A"), CardLine("C")} : OnData(l)
    \/ \E h \in DOMAIN handlers : Handler_part000(h)
    \/ TimerFires
    \/ Tick_part000

SpecVisits == Init /\ [][NextVisits]_vars

\* the console deleting programs and adding students
NextPrograms ==
    \/ PostLogin(Console, "admin", Credentials["admin"], FALSE, FALSE)
    \/ \E id \in ParamIds : StartDelete(Console, id)
    \/ \E d \in DOMAIN deletes : DelCount(d)
    \/ \E d \in DOMAIN deletes : DelDelete(d)
    \/ \E d \in DOMAIN deletes : DelFails(d)
    \/ \E u \in {"u4", "u5"}, p \in ParamIds, f \in BOOLEAN :
         AddStudentManual(Console, u, p, f)

SpecPrograms == Init /\ [][NextPrograms]_vars

\* the web server as clients with and without a session see it: the public
\* routes, login and logout, the registration form, and the console adding
\* students and deleting programs
NextPublic ==
    \/ \E c \in Clients, r \in { x \in PublicRoutes : x.path # "/add" } :
         Request(c, r, TRUE)
    \/ \E c \in Clients : GetLogin(c)
    \/ \E c \in Clients : PostLogin(c, "admin", Credentials["admin"], FALSE, FALSE)
    \/ \E c \in Clients : GetLogout(c, FALSE)
    \/ \E c \in Clients, u \in BodyUserIds, x \in BodyUids, d \in BOOLEAN :
         PostAdd(c, u, x, d)
    \/ \E c \in Clients, d \in BOOLEAN : AddStudentManual(c, "u4", "p1", d)
    \/ \E c \in Clients : StartDelete(c, "p2")
    \/ \E d \in DOMAIN deletes : DelCount(d)
    \/ \E d \in DOMAIN deletes : DelDelete(d)
    \/ \E d \in DOMAIN deletes : DelFails(d)

SpecPublic == Init /\ [][NextPublic]_vars

\* lines as the wire may deliver them: white space on either side of the uid,
\* a second ':', nothing after the prefix, and lines that only resemble the
\* prefix
WireLines ==
    { PREFIX \o <<" ", "A", "\t">>,
      PREFIX \o <<" ", "A", ":", "D">>,
      PREFIX,
      <<" ">> \o PREFIX \o <<"A">>,
      <<"r", "f", "i", "d", " ", "t", "a", "g", " ", "u", "i", "d", ":", "A">>,
      <<"R", "F", "I", "D", " ", "T", "a", "g", " ", "U", "I", "D", " ", "A">>,
      <<"D", ":", "A">> }

\* the terminal reading those lines
NextSerial == NextOn(WireLines)

SpecSerial == Init /\ [][NextSerial]_vars

----------------------------------------------------------------------------
(* Reading the history *)

ScanEventsOf(h) ==
    { i \in DOMAIN emitted : emitted[i].ev = "scan_event" /\ emitted[i].h = h }

CountsUpdatesOf(h) ==
    { i \in DOMAIN emitted : emitted[i].ev = "counts_update" /\ emitted[i].h = h }

StatusesOf(h) == { emitted[i].status : i \in ScanEventsOf(h) }

\* the step appends exactly the event e to the broadcasts
Emits(e) == emitted' = Append(emitted, e)

\* the step is the 'data' callback answering a duplicate scan
IgnoredStep ==
    /\ Len(emitted') = Len(emitted) + 1
    /\ emitted'[Len(emitted')].status = "IGNORED"

\* the step is the 'data' callback accepting a scan
AcceptedStep == Len(handlers') = Len(handlers) + 1

\* the step is a timer callback
TimerStep == Len(timers') < Len(timers)

Done(h) == handlers[h].pc = "done"

----------------------------------------------------------------------------
(* C1 *)

\* C1: handleCardScan for a uid bound to an existing user decides by its one
\* lookup of an open row of that user for the date of the scan: when the lookup
\* finds a row, that row and no other gets the time of the scan as logout_time
\* and LOGOUT is broadcast; when it finds none, one row (user, date of the scan,
\* time of the scan, NULL) is appended and LOGIN is broadcast.  (Steps in which
\* the query fails are the subject of C9.)
C1_ToggleBySingleLookup ==
    [][\A h \in DOMAIN handlers :
         LET H == handlers[h]
             H2 == handlers'[h]
             date == FormatDate(H.started)
             time == FormatTime(H.started)
         IN /\ (H.pc = "open" /\ H2.pc # "open" /\ H2.failedAt = "") =>
                 /\ H2.pc = (IF OpenLogins(H.user_id, date) # {} THEN "update" ELSE "insert")
                 /\ H2.pc = "update" => H2.log_id \in OpenLogins(H.user_id, date)
                 /\ attendance_log' = attendance_log
                 /\ emitted' = emitted
            /\ (H.pc = "update" /\ H2.pc # "update" /\ H2.failedAt = "") =>
                 /\ attendance_log' =
                        [attendance_log EXCEPT ![H.log_id].logout_time = time]
                 /\ Emits(ScanEvent(h, H.uid, H.user_id, "LOGOUT", time))
            /\ (H.pc = "insert" /\ H2.pc # "insert" /\ H2.failedAt = "") =>
                 /\ attendance_log' =
                        Append(attendance_log,
                               [user_id |-> H.user_id, log_date |-> date,
                                login_time |-> time, logout_time |-> NULL])
                 /\ Emits(ScanEvent(h, H.uid, H.user_id, "LOGIN", time))
            /\ (H.pc \in {"open", "update", "insert"}) =>
                 /\ [user_id |-> H.user_id, uid |-> H.uid] \in rfid_details
                 /\ H.user_id \in DOMAIN users
      ]_vars

\* one run has logged a user in and another run has logged a user out
C1_Witness ==
    \E h1, h2 \in DOMAIN handlers :
        /\ Done(h1) /\ StatusesOf(h1) = {"LOGIN"}
        /\ Done(h2) /\ StatusesOf(h2) = {"LOGOUT"}
        /\ handlers[h1].wrote = handlers[h2].wrote

----------------------------------------------------------------------------
(* C2 *)

\* the handleCardScan calls for the uid
CallsFor(uid) == { h \in DOMAIN handlers : handlers[h].uid = uid }

\* C2: for SCAN_TIMEOUT_MS after a scan was accepted its uid is in
\* scannedRecently, and a line carrying a uid of scannedRecently starts no
\* handleCardScan, leaves attendance_log alone and broadcasts exactly one
\* scan_event, with status IGNORED; a scan is only accepted for a uid outside
\* scannedRecently.
C2_DuplicateSuppressed ==
    /\ [](\A h \in DOMAIN handlers :
            now < handlers[h].started + SCAN_TIMEOUT_MS
                => handlers[h].uid \in scannedRecently)
    /\ [][/\ IgnoredStep =>
               LET e == emitted'[Len(emitted')]
               IN /\ e.uid \in scannedRecently
                  /\ e.uid = UidOfLine(e.line)
                  /\ emitted' = Append(emitted, e)
                  /\ handlers' = handlers
                  /\ attendance_log' = attendance_log
          /\ AcceptedStep =>
               /\ handlers'[Len(handlers')].uid \notin scannedRecently
               /\ emitted' = emitted
        ]_vars

\* the last broadcast is the IGNORED that answers a duplicate of a scan whose
\* run is still waiting for its UPDATE
C2_Witness ==
    \E h \in DOMAIN handlers :
        /\ emitted # <<>>
        /\ emitted[Len(emitted)].status = "IGNORED"
        /\ emitted[Len(emitted)].uid = handlers[h].uid
        /\ handlers[h].pc = "update"

----------------------------------------------------------------------------
(* C3 *)

PendingFor(uid) == { i \in DOMAIN timers : timers[i].uid = uid }

\* the last handleCardScan call for the uid
LastCallFor(uid) == CHOOSE h \in CallsFor(uid) : \A g \in CallsFor(uid) : g <= h

\* C3: a uid of scannedRecently has exactly one timer pending, due
\* SCAN_TIMEOUT_MS after its last accepted scan; IGNORED scans leave the timers
\* and the set alone; the timer's callback removes the uid, never before it is
\* due; and no scan of a uid outside the set is answered with IGNORED.
C3_WindowFromAcceptedScan ==
    /\ [](\A uid \in scannedRecently :
            /\ Cardinality(PendingFor(uid)) = 1
            /\ \A i \in PendingFor(uid) :
                 timers[i].due = handlers[LastCallFor(uid)].started + SCAN_TIMEOUT_MS)
    /\ [](\A i \in DOMAIN timers : timers[i].uid \in scannedRecently)
    /\ [][/\ IgnoredStep =>
               /\ timers' = timers
               /\ scannedRecently' = scannedRecently
               /\ emitted'[Len(emitted')].uid \in scannedRecently
          /\ TimerStep =>
               /\ Head(timers).due <= now
               /\ timers' = Tail(timers)
               /\ scannedRecently' = scannedRecently \ {Head(timers).uid}
        ]_vars

\* a uid was accepted, a duplicate of it was ignored, its timer has fired and
\* its next scan has started handleCardScan again
C3_Witness ==
    \E h1, h2 \in DOMAIN handlers, i \in DOMAIN emitted :
        /\ h1 < h2
        /\ handlers[h1].uid = handlers[h2].uid
        /\ emitted[i].status = "IGNORED"
        /\ emitted[i].uid = handlers[h1].uid
        /\ handlers[h2].started = handlers[h1].started + SCAN_TIMEOUT_MS
        /\ handlers[h2].pc # "rfid"

----------------------------------------------------------------------------
(* C4 *)

Dates == { FormatDate(t) : t \in Instants }

\* the handleCardScan calls for the card of user u
CallsOfUser(u) ==
    { h \in DOMAIN handlers : [user_id |-> u, uid |-> handlers[h].uid] \in rfid_details }

\* each run for the card of u ended before the next one started
Sequential(u) ==
    \A h1, h2 \in CallsOfUser(u) : h1 \notin handlers[h2].during

\* no auto-logout has updated the rows of date d
NoAutoLogout(d) ==
    \A b \in DOMAIN batch : ~(batch[b].today = d /\ batch[b].pc = "done")

\* the LOGIN and LOGOUT broadcasts for user u of the scans of date d, in order
IsToggleOf(u, d, e) ==
    /\ e.ev = "scan_event"
    /\ e.status \in {"LOGIN", "LOGOUT"}
    /\ e.user_id = u
    /\ handlers[e.h].currentDate = d

ToggleEvents(u, d) == SelectSeq(emitted, LAMBDA e : IsToggleOf(u, d, e))

\* the rows that no handleCardScan call inserted: those the terminal started
\* with, all of them open then
StartRows ==
    { i \in DOMAIN attendance_log :
        \A h \in DOMAIN handlers :
            ~(handlers[h].wrote = i /\ handlers[h].log_id = NULL) }

OpenAtStart(u, d) ==
    \E i \in StartRows :
        attendance_log[i].user_id = u /\ attendance_log[i].log_date = d

Other(status) == IF status = "LOGIN" THEN "LOGOUT" ELSE "LOGIN"

\* C4: for a user and a date, when the runs for the user's card do not overlap
\* and no auto-logout has closed rows of that date, the LOGIN and LOGOUT
\* broadcasts of that user's scans of that date alternate, beginning with LOGIN
\* when the user had no open session of that date at the start (and with LOGOUT
\* when the user had one).
C4_ToggleAlternates ==
    \A u \in DOMAIN users, d \in Dates :
        (Sequential(u) /\ NoAutoLogout(d)) =>
            LET T == ToggleEvents(u, d)
            IN \A k \in DOMAIN T :
                 T[k].status =
                    IF k = 1
                    THEN (IF OpenAtStart(u, d) THEN "LOGOUT" ELSE "LOGIN")
                    ELSE Other(T[k - 1].status)

\* a user without an open session has been logged in by one scan and out by the
\* next, with no overlap and no auto-logout
C4_Witness ==
    \E u \in DOMAIN users, d \in Dates :
        /\ Sequential(u)
        /\ NoAutoLogout(d)
        /\ ~OpenAtStart(u, d)
        /\ Len(ToggleEvents(u, d)) = 2

----------------------------------------------------------------------------
(* C5 *)

\* C5 as claimed: while the date is that of the page's rendering and no
\* handleCardScan call and no batch update is in progress, the rows the page
\* shows after applying the broadcasts are the rows of today in attendance_log,
\* open or closed alike.
C5_ViewMatchesLog ==
    (/\ Running = {}
     /\ BatchRunning = {}
     /\ FormatDate(now) = FormatDate(StartInstant))
        => view = TodaysLog(FormatDate(now))

----------------------------------------------------------------------------
(* C6 *)

\* C6: the run that broadcast LOGIN or LOGOUT had its INSERT or UPDATE
\* completed: the row it wrote is in attendance_log, with the user, date and
\* login time of the scan after an INSERT and a logout time after an UPDATE;
\* and a run whose INSERT or UPDATE failed has broadcast neither.
C6_BroadcastAfterWrite ==
    /\ \A i \in DOMAIN emitted :
         emitted[i].status \in {"LOGIN", "LOGOUT"} =>
            LET H == handlers[emitted[i].h]
            IN /\ H.wrote \in DOMAIN attendance_log
               /\ H.failedAt \notin {"insert", "update"}
               /\ attendance_log[H.wrote].user_id = H.user_id
               /\ emitted[i].status = "LOGIN" =>
                    /\ attendance_log[H.wrote].log_date = H.currentDate
                    /\ attendance_log[H.wrote].login_time = emitted[i].time
               /\ emitted[i].status = "LOGOUT" =>
                    attendance_log[H.wrote].logout_time # NULL
    /\ \A h \in DOMAIN handlers :
         handlers[h].failedAt \in {"insert", "update"} =>
            /\ StatusesOf(h) = {"ERROR"}
            /\ handlers[h].wrote = NULL

\* an INSERT has failed in one run and another run has broadcast LOGIN
C6_Witness ==
    \E h1, h2 \in DOMAIN handlers :
        /\ handlers[h1].failedAt = "insert"
        /\ "LOGIN" \in StatusesOf(h2)

----------------------------------------------------------------------------
(* C7 *)

\* C7: the run whose lookup in rfid_details finds no row broadcasts
\* UNREGISTERED and ends, and the run whose lookup in users finds no row
\* broadcasts NO_DETAILS and ends, each leaving attendance_log as it is; such a
\* run has broadcast exactly one scan_event and no counts_update and has
\* written no row.
C7_ResolutionFailures ==
    /\ [](\A h \in DOMAIN handlers :
            (StatusesOf(h) \cap {"UNREGISTERED", "NO_DETAILS"} # {}) =>
                /\ Done(h)
                /\ Cardinality(ScanEventsOf(h)) = 1
                /\ CountsUpdatesOf(h) = {}
                /\ handlers[h].wrote = NULL)
    /\ [][\A h \in DOMAIN handlers :
            LET H == handlers[h]
                H2 == handlers'[h]
            IN /\ (H.pc = "rfid" /\ H2.pc # "rfid" /\ H2.failedAt = ""
                                 /\ RfidRows(H.uid) = {}) =>
                     /\ Emits(ScanEvent(h, H.uid, NoUser, "UNREGISTERED", NULL))
                     /\ H2.pc = "done"
                     /\ attendance_log' = attendance_log
               /\ (H.pc = "user" /\ H2.pc # "user" /\ H2.failedAt = ""
                                 /\ H.user_id \notin DOMAIN users) =>
                     /\ Emits(ScanEvent(h, H.uid, NoUser, "NO_DETAILS", NULL))
                     /\ H2.pc = "done"
                     /\ attendance_log' = attendance_log
        ]_vars

\* one run has ended with UNREGISTERED and another with NO_DETAILS
C7_Witness ==
    \E h1, h2 \in DOMAIN handlers :
        /\ StatusesOf(h1) = {"UNREGISTERED"}
        /\ StatusesOf(h2) = {"NO_DETAILS"}

----------------------------------------------------------------------------
(* C9 *)

\* C9: a run in which a query failed has settled without rejecting, its last
\* broadcast is a scan_event with status ERROR, and it takes no further step
\* (no retry); no run ever rejects; and the uid of the failed run is in
\* scannedRecently for SCAN_TIMEOUT_MS after the scan like any other.
C9_FailureCaught ==
    /\ [](\A h \in DOMAIN handlers :
            /\ handlers[h].settled # "rejected"
            /\ handlers[h].failedAt # "" =>
                 /\ handlers[h].settled = "fulfilled"
                 /\ Done(h)
                 /\ \E i \in ScanEventsOf(h) :
                       /\ emitted[i].status = "ERROR"
                       /\ \A j \in ScanEventsOf(h) \cup CountsUpdatesOf(h) : j <= i
                 /\ now < handlers[h].started + SCAN_TIMEOUT_MS
                       => handlers[h].uid \in scannedRecently)
    /\ [][\A h \in DOMAIN handlers :
            handlers[h].failedAt # "" =>
                /\ handlers'[h] = handlers[h]
                /\ ScanEventsOf(h)' = ScanEventsOf(h)
        ]_vars

\* the query of getTodayBranchCounts failed after the LOGIN was broadcast, and
\* the uid is still in scannedRecently
C9_Witness ==
    \E h \in DOMAIN handlers :
        /\ handlers[h].failedAt = "counts"
        /\ StatusesOf(h) = {"LOGIN", "ERROR"}
        /\ handlers[h].uid \in scannedRecently

----------------------------------------------------------------------------
(* C8 *)

\* position of the first ':' of l, and of the next ':' after it or Len(l) + 1
FirstColon(l) ==
    CHOOSE i \in 1..Len(l) : l[i] = ":" /\ \A j \in 1..(i - 1) : l[j] # ":"

SecondColon(l) ==
    CHOOSE i \in (FirstColon(l) + 1)..(Len(l) + 1) :
        /\ i <= Len(l) => l[i] = ":"
        /\ \A j \in (FirstColon(l) + 1)..(i - 1) : l[j] # ":"

\* u is s without the white space at its two ends
IsTrimOf(u, s) ==
    \E a \in 0..Len(s) :
        /\ a + Len(u) <= Len(s)
        /\ u = SubSeq(s, a + 1, a + Len(u))
        /\ \A j \in (1..a) \cup ((a + Len(u) + 1)..Len(s)) : s[j] \in WhiteSpace
        /\ u # <<>> => (u[1] \notin WhiteSpace /\ u[Len(u)] \notin WhiteSpace)

\* the line starts with the prefix and uid is the trimmed text between its
\* first and its second ':'
ReadsAs(l, uid) ==
    /\ Len(l) >= Len(PREFIX)
    /\ \A i \in 1..Len(PREFIX) : l[i] = PREFIX[i]
    /\ IsTrimOf(uid, SubSeq(l, FirstColon(l) + 1, SecondColon(l) - 1))

\* C8: every call of handleCardScan and every IGNORED broadcast answers a line
\* that starts with "RFID Tag UID:", for the uid that is the trimmed text
\* between the first and the second ':' of that line; scannedRecently and the
\* timers hold uids of such calls only; and a step that adds to scannedRecently
\* or sets a timer is the step of such a call, a broadcast outside
\* handleCardScan the IGNORED answer to such a line.
C8_OnlyPrefixedLines ==
    /\ [](/\ \A h \in DOMAIN handlers : ReadsAs(handlers[h].line, handlers[h].uid)
          /\ \A i \in DOMAIN emitted :
                emitted[i].h = 0 =>
                    /\ emitted[i].status = "IGNORED"
                    /\ ReadsAs(emitted[i].line, emitted[i].uid)
          /\ scannedRecently \subseteq { handlers[h].uid : h \in DOMAIN handlers }
          /\ Len(timers) <= Len(handlers)
          /\ \A t \in DOMAIN timers :
                \E h \in DOMAIN handlers : handlers[h].uid = timers[t].uid)
    /\ [][/\ (scannedRecently' \ scannedRecently # {} \/ Len(timers') > Len(timers)) =>
                /\ AcceptedStep
                /\ scannedRecently' = scannedRecently \cup {handlers'[Len(handlers')].uid}
                /\ timers' = Append(timers, [uid |-> handlers'[Len(handlers')].uid,
                                             due |-> now + SCAN_TIMEOUT_MS])
          /\ ~AcceptedStep /\ ~IgnoredStep /\ handlers' = handlers /\ batch' = batch =>
                /\ emitted' = emitted
                /\ attendance_log' = attendance_log
                /\ scannedRecently' \subseteq scannedRecently
                /\ Len(timers') <= Len(timers)
        ]_vars

\* a line with a second ':' has started a call for the text before it, and a
\* line with white space around the uid was answered IGNORED for the same uid
C8_Witness ==
    /\ \E h \in DOMAIN handlers :
          /\ handlers[h].line = PREFIX \o <<" ", "A", ":", "D">>
          /\ handlers[h].uid = <<"A">>
    /\ \E i \in DOMAIN emitted :
          /\ emitted[i].status = "IGNORED"
          /\ emitted[i].line = PREFIX \o <<" ", "A", "\t">>
          /\ emitted[i].uid = <<"A">>

----------------------------------------------------------------------------
(* C10 *)

\* the routes the claim lists
ClaimedAdminPaths ==
    { "/home", "/actions/:userType", "/reports/student", "/reports/faculty",
      "/reports/preview", "/reports/download", "/manage-student", "/manage-faculty",
      "/add-student-manual", "/upload-students-excel", "/add-faculty-manual",
      "/upload-faculty-excel", "/edit-rfid", "/edit-rfid/search", "/edit-rfid/update",
      "/manage-programs", "/manage-programs/add", "/manage-programs/delete/:id" }

\* C10: the answer to a request for one of the admin routes made with a session
\* without a user is a redirect to /login, with the body of the route not run
\* and no query made; and the body of an admin route has run only for a session
\* with a user.  Each of the listed routes is a route of the server.
C10_AdminRoutesGuarded ==
    /\ ClaimedAdminPaths = { r.path : r \in AdminRoutes }
    /\ resp.path \in ClaimedAdminPaths =>
         /\ resp.user = NoUser =>
              /\ resp.status = 302
              /\ resp.location = "/login"
              /\ ~resp.ran
              /\ resp.queries = 0
         /\ resp.ran => resp.user # NoUser

\* a client without a session user was turned away from /edit-rfid/update
\* while another client is logged in
C10_Witness ==
    /\ resp.path = "/edit-rfid/update"
    /\ resp.user = NoUser
    /\ resp.status = 302
    /\ \E c \in Clients : session[c] # NoUser /\ c # resp.client

----------------------------------------------------------------------------
(* C11 *)

\* the last request was a POST /login
WasPostLogin == resp.method = "POST" /\ resp.path = "/login"

\* what the claim lists: a missing username or password, an unknown username,
\* a wrong password, a database error
LoginMustFail ==
    \/ resp.username = ""
    \/ resp.password = <<>>
    \/ resp.username \notin DOMAIN Credentials
    \/ resp.password # Credentials[resp.username]
    \/ resp.dbFailed

\* C11 as claimed: after a POST /login that answered with the redirect to /home
\* or put a user in the session, the submitted username has a credentials row
\* whose password is the submitted one; and after a POST /login with a missing
\* field, an unknown username, a wrong password or a database error the
\* session has no user and the answer is the redirect to /login with a message.
C11_LoginOnlyWithCredentials ==
    WasPostLogin =>
        /\ (resp.location = "/home" \/ session[resp.client] \notin {NoUser, resp.user}) =>
              /\ resp.username \in DOMAIN Credentials
              /\ resp.password = Credentials[resp.username]
              /\ ~resp.dbFailed
        /\ LoginMustFail =>
              /\ session[resp.client] = NoUser
              /\ resp.status = 302
              /\ resp.location = "/login"
              /\ resp.error # ""

----------------------------------------------------------------------------
(* C12 *)

\* the step is a request of client c to GET /logout
LogoutStep(c) ==
    /\ resp' # resp
    /\ resp'.client = c /\ resp'.method = "GET" /\ resp'.path = "/logout"

\* the step is a POST /login of client c that succeeded: answered with the
\* redirect to /home after a match of the credentials, without an error
LoginSucceeds(c) ==
    /\ resp'.client = c /\ resp'.method = "POST" /\ resp'.path = "/login"
    /\ resp'.location = "/home"
    /\ resp'.username \in DOMAIN Credentials
    /\ resp'.password = Credentials[resp'.username]
    /\ ~resp'.dbFailed /\ ~resp'.sessionError

\* C12: GET /logout leaves the client's session without a user and answers
\* with the redirect to /login, also when destroy reports an error; a session
\* without a user gets one only in a step that is a successful POST /login of
\* that client; and a request to an admin route made with a session without a
\* user is answered with the redirect to /login.  So from a logout to the next
\* successful login every request of the client to a protected route is
\* redirected.
C12_LogoutEndsSession ==
    /\ [](resp.path \in { r.path : r \in AdminRoutes } /\ resp.user = NoUser
            => resp.status = 302 /\ resp.location = "/login" /\ ~resp.ran)
    /\ [][\A c \in Clients :
            /\ LogoutStep(c) =>
                 /\ session'[c] = NoUser
                 /\ resp'.status = 302
                 /\ resp'.location = "/login"
            /\ (session[c] = NoUser /\ session'[c] # NoUser) => LoginSucceeds(c)
        ]_vars

\* a logged-in client has logged out, destroy reported an error, and the
\* client's session has no user
C12_Witness ==
    /\ resp.method = "GET" /\ resp.path = "/logout"
    /\ resp.user # NoUser
    /\ resp.sessionError
    /\ session[resp.client] = NoUser

----------------------------------------------------------------------------
(* C13 *)

\* the rows of rfid_details of the user, and of everyone else, in a table
BindingsOf(table, u) == { r \in table : r.user_id = u }
BindingsOfOthers(table, u) == { r \in table : r.user_id # u }

\* C13: no step of a POST /edit-rfid/update other than its commit changes
\* rfid_details, so a request that found new_uid bound to another user, or in
\* which a statement failed, ends rolled back with the table as it would be
\* without the request and the user's binding still there; such a request
\* never commits; and the commit leaves the user with exactly the binding to
\* new_uid, or with none when new_uid is empty, and every other user's rows
\* as they were.
C13_UpdateAllOrNothing ==
    /\ [](\A t \in DOMAIN txs :
            /\ txs[t].failedAt # "" => txs[t].result # "committed"
            /\ txs[t].result = "rolledback" => txs[t].failedAt # "")
    /\ [][\A t \in DOMAIN txs :
            LET T == txs[t]
                T2 == txs'[t]
                u == T.user_id
            IN /\ (T2 # T /\ T2.result # "committed") => rfid_details' = rfid_details
               /\ (T.pc = "check" /\ T2.pc # "check"
                     /\ \E r \in rfid_details : r.uid = T.new_uid /\ r.user_id # u)
                    => T2.pc = "rollback"
               /\ (T.pc = "rollback" /\ T2.pc = "done") =>
                     /\ T2.result \in {"rolledback", "rejected"}
                     /\ BindingsOf(rfid_details', u) = BindingsOf(rfid_details, u)
               /\ (T.result = "" /\ T2.result = "committed") =>
                     /\ BindingsOf(rfid_details', u) =
                           (IF T.new_uid = <<>> THEN {}
                            ELSE {[user_id |-> u, uid |-> T.new_uid]})
                     /\ BindingsOfOthers(rfid_details', u) = BindingsOfOthers(rfid_details, u)
        ]_vars

\* one request was rolled back after its DELETE, because the INSERT failed,
\* with the user's binding still in the table; another one has replaced a
\* binding
C13_Witness ==
    \E t1, t2 \in DOMAIN txs :
        /\ txs[t1].result = "rolledback"
        /\ txs[t1].failedAt = "insert"
        /\ BindingsOf(rfid_details, txs[t1].user_id) # {}
        /\ txs[t2].result = "committed"
        /\ txs[t2].new_uid # <<>>
        /\ [user_id |-> txs[t2].user_id, uid |-> txs[t2].new_uid] \in rfid_details

----------------------------------------------------------------------------
(* C14 *)

----------------------------------------------------------------------------
(* C15 *)

\* the data rows of a sheet that have a user_id
Wanted(sheet) == SelectSeq(sheet, LAMBDA r : r.user_id # "")

WantedIds(sheet) == { Wanted(sheet)[n].user_id : n \in DOMAIN Wanted(sheet) }

\* C15: no step of an upload other than its commit changes users; the commit
\* adds every row of the sheet that has a user_id, each as looked up, and
\* nothing else, and the answer reports their number without an error; an
\* upload with a row that has a user_id and names no program (department), or
\* in which the batch INSERT or another statement failed, never succeeds and
\* ends rolled back, users as it was, with the redirect carrying the error.
C15_ImportAllOrNothing ==
    /\ [](\A k \in DOMAIN uploads :
            LET U == uploads[k]
            IN /\ (\E n \in DOMAIN Wanted(U.sheet) :
                        Wanted(U.sheet)[n].ref \notin Referenced(U.kind))
                     => U.result # "success"
               /\ U.failedAt # "" => U.result # "success"
               /\ U.pc = "done" => U.result \in {"success", "rolledback", "rejected"})
    /\ [][\A k \in DOMAIN uploads :
            LET U == uploads[k]
                U2 == uploads'[k]
                rows == Wanted(U.sheet)
            IN /\ (U2 # U /\ U2.result # "success") => users' = users
               /\ (U.pc = "rollback" /\ U2.pc = "done") =>
                     /\ U2.result = "rolledback"
                     /\ resp'.status = 302 /\ resp'.location = ManagePage(U.kind)
                     /\ resp'.error # ""
               /\ (U.result = "" /\ U2.result = "success") =>
                     /\ WantedIds(U.sheet) \cap DOMAIN users = {}
                     /\ DOMAIN users' = DOMAIN users \cup WantedIds(U.sheet)
                     /\ \A u \in DOMAIN users : users'[u] = users[u]
                     /\ \A n \in DOMAIN rows :
                           users'[rows[n].user_id] = UserRow(U.kind, rows[n])
                     /\ resp'.error = ""
                     /\ resp'.count = Len(rows)
                     /\ resp'.count = Cardinality(DOMAIN users' \ DOMAIN users)
        ]_vars

\* an upload whose sheet starts with a row without a user_id, naming no
\* program, has succeeded: one row was reported and u4 is a user
C15_Witness ==
    \E k \in DOMAIN uploads :
        /\ uploads[k].result = "success"
        /\ uploads[k].sheet[1] = SheetRow("", "px")
        /\ resp.count = 1
        /\ resp.path = "/upload-students-excel"
        /\ "u4" \in DOMAIN users

----------------------------------------------------------------------------
(* C16 *)

\* the step in which the UPDATE of autoLogoutCurrentDay call b completes
AutoLogoutCompletes(b) == batch[b].pc = "update" /\ batch'[b].pc = "done"

\* C16: autoLogoutCurrentDay is started at 19:05 only; the step in which its
\* UPDATE completes gives logout_time 19:00:00 to every row of its date that
\* had none, after which no row of that date is open; it changes no other
\* field and no other row, keeps the number of rows, and broadcasts nothing.
C16_AutoLogoutFrame ==
    [][/\ Len(batch') > Len(batch) =>
            /\ FormatTime(now) = (19 * 60 + 5) * 60
            /\ batch'[Len(batch')].today = FormatDate(now)
       /\ \A b \in DOMAIN batch :
            AutoLogoutCompletes(b) =>
                /\ DOMAIN attendance_log' = DOMAIN attendance_log
                /\ \A i \in DOMAIN attendance_log :
                     LET r == attendance_log[i]
                         r2 == attendance_log'[i]
                     IN /\ r2.user_id = r.user_id
                        /\ r2.log_date = r.log_date
                        /\ r2.login_time = r.login_time
                        /\ r2.logout_time =
                              (IF r.log_date = batch[b].today /\ r.logout_time = NULL
                               THEN 19 * 3600 ELSE r.logout_time)
                        /\ r.log_date = batch[b].today => r2.logout_time # NULL
                /\ emitted' = emitted
                /\ view' = view
      ]_vars

\* an auto-logout has completed: it closed a session of its date at 19:00:00
\* and left alone a session of that date a scan had closed before
C16_Witness ==
    \E b \in DOMAIN batch :
        /\ batch[b].pc = "done"
        /\ \E i, j \in DOMAIN attendance_log :
              /\ attendance_log[i].log_date = batch[b].today
              /\ attendance_log[i].logout_time = AUTO_LOGOUT_TIME
              /\ attendance_log[j].log_date = batch[b].today
              /\ attendance_log[j].logout_time \notin {NULL, AUTO_LOGOUT_TIME}

----------------------------------------------------------------------------
(* C17 *)

\* the step in which the UPDATE of cleanupPreviousDays call b completes
CleanupCompletes(b) == batch[b].pc = "cleanup" /\ batch'[b].pc = "cleaned"

\* C17: cleanupPreviousDays is called once, at startup; the step in which its
\* UPDATE completes gives logout_time 19:00:00 to every row of a date before
\* the date of the startup that had none, after which no row of an earlier
\* date is open; rows of that date and later, open or closed, and rows that
\* had a logout_time are as before, and no row is added or removed.
C17_StartupCleanup ==
    /\ [](Cardinality({ b \in DOMAIN batch :
                           batch[b].pc \in {"cleanup", "cleaned"}
                             \/ (b = 1 /\ batch[b].pc = "failed") }) = 1)
    /\ [][\A b \in DOMAIN batch :
            CleanupCompletes(b) =>
                /\ batch[b].today = FormatDate(StartInstant)
                /\ DOMAIN attendance_log' = DOMAIN attendance_log
                /\ \A i \in DOMAIN attendance_log :
                     LET r == attendance_log[i]
                         r2 == attendance_log'[i]
                     IN /\ r2.user_id = r.user_id
                        /\ r2.log_date = r.log_date
                        /\ r2.login_time = r.login_time
                        /\ r2.logout_time =
                              (IF r.log_date < batch[b].today /\ r.logout_time = NULL
                               THEN 19 * 3600 ELSE r.logout_time)
                        /\ r.log_date < batch[b].today => r2.logout_time # NULL
        ]_vars

\* the cleanup has completed: the open session of the day before is closed at
\* 19:00:00, the one closed at 17:00:00 is as it was, today's session is open
C17_Witness ==
    /\ batch[1].pc = "cleaned"
    /\ attendance_log[1].logout_time = CLEANUP_LOGOUT_TIME
    /\ attendance_log[2].logout_time = 17 * 3600
    /\ attendance_log[4].log_date = batch[1].today
    /\ attendance_log[4].logout_time = NULL

----------------------------------------------------------------------------
(* C18 *)

\* C18 as claimed: attendance_log never holds two rows without a logout_time
\* for one user and one date.
C18_AtMostOneOpen ==
    \A i, j \in DOMAIN attendance_log :
        (/\ attendance_log[i].user_id = attendance_log[j].user_id
         /\ attendance_log[i].log_date = attendance_log[j].log_date
         /\ attendance_log[i].logout_time = NULL
         /\ attendance_log[j].logout_time = NULL) => i = j

----------------------------------------------------------------------------
(* C19 *)

\* C19: a run of handleCardScan looks for an open row of the date it read when
\* it started and of no other date: it goes on to the UPDATE exactly when the
\* user has an open row of that date, and then for a row of that date; when
\* there is none it goes on to the INSERT, whatever rows of earlier dates are
\* open; and no step of the run changes a row of another date.  (Steps in
\* which the query fails are the subject of C9.)
C19_ToggleScopedToDate ==
    [][\A h \in DOMAIN handlers :
         LET H == handlers[h]
             H2 == handlers'[h]
             today == { i \in DOMAIN attendance_log :
                          /\ attendance_log[i].user_id = H.user_id
                          /\ attendance_log[i].log_date = H.currentDate
                          /\ attendance_log[i].logout_time = NULL }
         IN /\ H.currentDate = FormatDate(H.started)
            /\ (H.pc = "open" /\ H2.pc # "open" /\ H2.failedAt = "") =>
                  /\ today = {} => H2.pc = "insert"
                  /\ today # {} => (H2.pc = "update" /\ H2.log_id \in today)
            /\ H2 # H =>
                  \A i \in DOMAIN attendance_log :
                      attendance_log[i].log_date # H.currentDate
                          => attendance_log'[i] = attendance_log[i]
      ]_vars

\* a scan was handled as LOGIN while a session of the user of an earlier date
\* was open, and that session is open still
C19_Witness ==
    \E h \in DOMAIN handlers :
        /\ "LOGIN" \in StatusesOf(h)
        /\ \E i \in DOMAIN attendance_log :
              /\ i < handlers[h].wrote
              /\ attendance_log[i].user_id = handlers[h].user_id
              /\ attendance_log[i].log_date < handlers[h].currentDate
              /\ attendance_log[i].logout_time = NULL

----------------------------------------------------------------------------
(* C20 *)

\* the step broadcasts the counts_update of call h
CountsStep(h) ==
    /\ Len(emitted') = Len(emitted) + 1
    /\ emitted'[Len(emitted')].ev = "counts_update"
    /\ emitted'[Len(emitted')].h = h

\* C20, as claimed: a call of handleCardScan that has broadcast LOGIN
\* broadcasts exactly one counts_update once it has finished, after its LOGIN
\* event; a call that has not broadcast LOGIN, and a duplicate scan, broadcast
\* none; and the counts are those of the table when they are broadcast, the
\* row the call inserted being one of the rows of the date counted.
C20_CountsAfterLogin ==
    /\ [](\A h \in DOMAIN handlers :
            /\ \A i \in CountsUpdatesOf(h) :
                  \E j \in ScanEventsOf(h) : j < i /\ emitted[j].status = "LOGIN"
            /\ Cardinality(CountsUpdatesOf(h)) <= 1
            /\ (handlers[h].pc = "done" /\ "LOGIN" \in StatusesOf(h))
                  => Cardinality(CountsUpdatesOf(h)) = 1)
    /\ [](\A i \in DOMAIN emitted :
            emitted[i].ev = "counts_update" => emitted[i].h \in DOMAIN handlers)
    /\ [][\A h \in DOMAIN handlers :
            CountsStep(h) =>
                /\ handlers[h].wrote \in DOMAIN attendance_log
                /\ emitted'[Len(emitted')].counts
                      = BranchCounts(attendance_log[handlers[h].wrote].log_date)
         ]_vars

----------------------------------------------------------------------------
(* C21 *)

ScanStatuses == {"IGNORED", "UNREGISTERED", "NO_DETAILS", "LOGIN", "LOGOUT", "ERROR"}

\* C21, as claimed: every scan_event carries one of the six statuses; a call
\* of handleCardScan never has two scan_events, and has exactly one when it
\* has finished; a duplicate scan is answered by exactly one IGNORED event.
C21_OneScanEventPerScan ==
    /\ [](\A i \in DOMAIN emitted :
            emitted[i].ev = "scan_event" => emitted[i].status \in ScanStatuses)
    /\ [](\A h \in DOMAIN handlers :
            /\ Cardinality(ScanEventsOf(h)) <= 1
            /\ handlers[h].pc = "done" => Cardinality(ScanEventsOf(h)) = 1)
    /\ [][(Len(emitted') > Len(emitted) /\ handlers' = handlers /\ batch' = batch)
             => IgnoredStep]_vars

----------------------------------------------------------------------------
(* C22 *)

\* C22, as claimed: a call of handleCardScan that has broadcast ERROR has
\* written no row of attendance_log, neither an INSERT nor an UPDATE.
C22_ErrorLeavesLogUntouched ==
    \A h \in DOMAIN handlers :
        "ERROR" \in StatusesOf(h) => handlers[h].wrote = NULL

----------------------------------------------------------------------------
(* C23 *)

\* C23, as claimed: every row of attendance_log that has a logout_time has
\* logout_time >= login_time.
C23_LogoutNotBeforeLogin ==
    \A i \in DOMAIN attendance_log :
        attendance_log[i].logout_time # NULL
            => attendance_log[i].logout_time >= attendance_log[i].login_time

----------------------------------------------------------------------------
(* C24 *)

\* C24, as claimed: no step changes the logout_time of a row of
\* attendance_log that has one.
C24_ClosedIsFinal ==
    [][\A i \in DOMAIN attendance_log :
          attendance_log[i].logout_time # NULL
              => /\ i \in DOMAIN attendance_log'
                 /\ attendance_log'[i].logout_time = attendance_log[i].logout_time
      ]_vars

----------------------------------------------------------------------------
(* C25 *)

\* the rows attendance_log can hold: those of Init and one per scan
RowIds == 1 .. (1 + MaxScans)

\* row i is an open row of the day the server started
RowOpen(i) ==
    /\ i \in DOMAIN attendance_log
    /\ attendance_log[i].logout_time = NULL
    /\ attendance_log[i].log_date = FormatDate(StartInstant)

RowClosed(i) == i \in DOMAIN attendance_log /\ attendance_log[i].logout_time # NULL

\* C25, as claimed, for the rows of the first day, the cron job firing on
\* that day and on the next, and granting that no query ever fails: a row of
\* attendance_log that is open is closed at some later time.
C25_EventuallyClosed ==
    [](Failures = 0) => \A i \in RowIds : RowOpen(i) ~> RowClosed(i)

----------------------------------------------------------------------------
(* C26 *)

\* the pending removal timers of a uid
TimersOf(uid) == { k \in DOMAIN timers : timers[k].uid = uid }

\* C26: a uid is in scannedRecently exactly when one removal timer is pending
\* for it, and no uid has two; a timer is started only by the 'data' callback
\* accepting a scan, and a scan is accepted only for a uid that is not in the
\* set.
C26_OneTimerPerUid ==
    /\ [](\A k \in DOMAIN timers : timers[k].uid \in scannedRecently)
    /\ [](\A uid \in scannedRecently : Cardinality(TimersOf(uid)) = 1)
    /\ [][/\ Len(timers') > Len(timers) => AcceptedStep
          /\ AcceptedStep =>
                /\ handlers'[Len(handlers')].uid \notin scannedRecently
                /\ Len(timers') = Len(timers) + 1
                /\ timers'[Len(timers')].uid = handlers'[Len(handlers')].uid
      ]_vars

\* a uid whose first timer has run out was accepted a second time and is in
\* the set with one pending timer
C26_Witness ==
    \E h, g \in DOMAIN handlers :
        /\ h < g
        /\ handlers[h].uid = handlers[g].uid
        /\ handlers[g].uid \in scannedRecently
        /\ Cardinality(TimersOf(handlers[g].uid)) = 1

----------------------------------------------------------------------------
(* C27 *)

\* the rows of attendance_log the step adds or changes
RowsWritten ==
    { i \in DOMAIN attendance_log' :
        i \notin DOMAIN attendance_log \/ attendance_log'[i] # attendance_log[i] }

\* C27: a step of a call of handleCardScan leaves rfid_details and users
\* alone, deletes no row of attendance_log and writes at most one; the call
\* writes a row once at most; the row written is of the user the uid is bound
\* to and of the date of the scan; and a row that existed keeps its user_id,
\* log_date and login_time.
C27_HandlerFrame ==
    [][\A h \in DOMAIN handlers :
         handlers'[h] # handlers[h] =>
            /\ rfid_details' = rfid_details
            /\ users' = users
            /\ Len(attendance_log') >= Len(attendance_log)
            /\ Cardinality(RowsWritten) <= 1
            /\ RowsWritten # {} => handlers[h].wrote = NULL
            /\ \A i \in RowsWritten :
                  /\ handlers'[h].wrote = i
                  /\ attendance_log'[i].user_id = handlers[h].user_id
                  /\ attendance_log'[i].log_date = FormatDate(handlers[h].started)
                  /\ [user_id |-> handlers[h].user_id, uid |-> handlers[h].uid]
                        \in rfid_details
                  /\ i \in DOMAIN attendance_log =>
                        /\ attendance_log'[i].user_id = attendance_log[i].user_id
                        /\ attendance_log'[i].log_date = attendance_log[i].log_date
                        /\ attendance_log'[i].login_time = attendance_log[i].login_time
      ]_vars

\* two calls for the cards of different users ran at the same time; the one
\* inserted a row and the other closed one
C27_Witness ==
    \E h, g \in DOMAIN handlers :
        /\ h \in handlers[g].during
        /\ handlers[h].user_id # handlers[g].user_id
        /\ handlers[h].wrote # NULL
        /\ handlers[g].wrote # NULL
        /\ {"LOGIN", "LOGOUT"} \subseteq (StatusesOf(h) \cup StatusesOf(g))

----------------------------------------------------------------------------
(* C28 *)

\* C28, as claimed: when every call of handleCardScan of part_000 has
\* finished, branch_visits holds, for each date and branch, the number of rows
\* of attendance_log of that date and of students of that branch.
C28_VisitsMatchLog ==
    (\A h \in DOMAIN handlers : handlers[h].pc = "done")
        => branch_visits = VisitsOf(attendance_log)

----------------------------------------------------------------------------
(* C29 *)

CannotDelete ==
    {"Cannot delete: student(s) assigned.", "Cannot delete: Referenced by users."}

----------------------------------------------------------------------------
(* C30 *)

\* the step is the answer to a POST /add
WasPostAdd == resp' # resp /\ resp'.method = "POST" /\ resp'.path = "/add"

\* the tables of the database
Tables == <<rfid_details, users, attendance_log, programs>>

\* C30: POST /add is answered without a session as it is with one, always by
\* a redirect to /register.  It changes rfid_details only by adding one row,
\* and only when it ran its INSERT and reports no error; a request that ran no
\* query (a field was missing) reports an error, and so does one whose INSERT
\* threw.  No other request of a client without a session changes a table: a
\* step that changes one is a POST /add, or belongs to a request that passed
\* isAuthenticated.
C30_PublicAdd ==
    [][/\ WasPostAdd =>
            /\ resp'.status = 302
            /\ resp'.location = "/register"
            /\ resp'.queries = 0 => resp'.error = "All fields are required."
            /\ resp'.error # "" => rfid_details' = rfid_details
            /\ resp'.error = "" =>
                  /\ resp'.queries = 1
                  /\ Cardinality(rfid_details' \ rfid_details) = 1
                  /\ rfid_details \subseteq rfid_details'
                  /\ \A r \in rfid_details' \ rfid_details :
                        r.user_id # "" /\ r.uid # <<>>
            /\ <<users, attendance_log, programs>>' = <<users, attendance_log, programs>>
       /\ (Tables' # Tables /\ ~WasPostAdd) =>
            \/ resp' # resp /\ resp'.user # NoUser
            \/ \E d \in DOMAIN deletes : deletes'[d] # deletes[d]
       /\ Len(deletes') > Len(deletes) => session[deletes'[Len(deletes')].client] # NoUser
      ]_vars

\* a client without a session has added a binding through POST /add, and a
\* POST /add without a session was answered with an error
C30_Witness ==
    /\ resp.path = "/add"
    /\ resp.user = NoUser
    /\ resp.error = "Duplicate User ID or UID."
    /\ [user_id |-> "u2", uid |-> <<"B">>] \in rfid_details
    /\ \A c \in Clients : session[c] = NoUser

====
